---- MODULE Spec2Model ----
(***************************************************************************)
(* A model of the pcap-analyzer core: the TCP stream reassembler           *)
(* (libpcap-analyzer/src/tcp_reassembly.rs) and the layered dispatcher,    *)
(* flow handling and teardown (libpcap-analyzer/src/analyzer.rs).          *)
(***************************************************************************)
EXTENDS Integers, Sequences, FiniteSets, TLC

(***************************************************************************)
(* Wrapping<u32>.  A 32-bit value is the pair <<hi, lo>> of its 16-bit     *)
(* halves, so that the full width is kept with the integers TLC has.       *)
(***************************************************************************)
Half == 2^16

\* The u32 whose value is n (0 <= n < 2^31).
W(n) == <<(n \div Half) % Half, n % Half>>

\* Wrapping<u32> + Wrapping<u32>
Add32(a, b) ==
    LET lo == a[2] + b[2]
        hi == a[1] + b[1] + (lo \div Half)
    IN <<hi % Half, lo % Half>>

\* u32 subtraction that stops at 0 instead of wrapping
Sub32Saturating(a, b) ==
    IF a[1] < b[1] \/ (a[1] = b[1] /\ a[2] < b[2]) THEN <<0, 0>>
    ELSE LET lo == a[2] - b[2]
             borrow == IF lo < 0 THEN 1 ELSE 0
         IN <<a[1] - b[1] - borrow, (lo + Half) % Half>>

\* Wrapping<u32> - Wrapping<u32>
Sub32(a, b) ==
    LET lo == a[2] - b[2]
        borrow == IF lo < 0 THEN 1 ELSE 0
        hi == a[1] - b[1] - borrow
    IN <<(hi + Half) % Half, (lo + Half) % Half>>

\* The derived Ord of Wrapping<u32>: the plain unsigned order of the values.
Lt32(a, b) == a[1] < b[1] \/ (a[1] = b[1] /\ a[2] < b[2])
Gt32(a, b) == Lt32(b, a)

\* `(x).0 as usize` of a u32 known to be small (hi half below 2^14).
ToNat(a) == a[1] * Half + a[2]

(***************************************************************************)
(* TCP data structures                                                     *)
(***************************************************************************)
TcpStatus == {"Closed", "Listen", "SynSent", "SynRcv", "Established",
              "Closing", "CloseWait", "FinWait1", "FinWait2", "LastAck",
              "TimeWait"}

TcpStreamError == {"Anomaly", "Expired", "HandshakeFailed"}

\* TcpPeer::new (the addr and port fields are only used in log messages)
NewPeer == [isn |-> W(0), ian |-> W(0), next_rel_seq |-> W(0),
            last_rel_ack |-> W(0), status |-> "Closed", segments |-> <<>>]

\* TcpStream::new(flow): last_seen_ts is flow.last_seen
NewStream(last_seen) == [client |-> NewPeer, server |-> NewPeer,
                         status |-> "Closed", last_seen_ts |-> last_seen]

\* TcpStreamReassembly::default: timeout = Duration::new(120, 0), in seconds
DefaultTimeout == 120

\* insert_sorted that always pushes at the back of the queue
PushBack(segs, s) == Append(segs, s)

\* TcpPeer::insert_sorted: before the first queued item whose rel_seq is
\* greater than s.rel_seq, at the back when there is none.
InsertSorted(segs, s) ==
    LET later == {n \in 1..Len(segs) : Lt32(s.rel_seq, segs[n].rel_seq)}
    IN IF later = {} THEN Append(segs, s)
       ELSE LET idx == CHOOSE n \in later : \A k \in later : n <= k
            IN SubSeq(segs, 1, idx - 1) \o <<s>> \o SubSeq(segs, idx, Len(segs))

\* queue_segment that stores only the segments with data
QueueSegmentDataOnly(peer, segment) ==
    IF segment.data = <<>> THEN peer
    ELSE [peer EXCEPT !.segments = InsertSorted(peer.segments, segment)]

\* queue_segment: a segment with neither data nor FIN is not stored; the
\* comparison with the head only chooses a log message.
QueueSegment(peer, segment) ==
    IF segment.data = <<>> /\ "FIN" \notin segment.flags
    THEN peer
    ELSE [peer EXCEPT !.segments = InsertSorted(peer.segments, segment)]

\* send_single_segment: the transport plugins are run on a segment that has
\* data; next_rel_seq advances by the data length, and by one for a FIN.
\* The result is the peer and the segments handed to the plugins.
SendSingleSegment(peer, segment) ==
    LET n1 == IF segment.data # <<>>
              THEN Add32(peer.next_rel_seq, W(Len(segment.data)))
              ELSE peer.next_rel_seq
        n2 == IF "FIN" \in segment.flags THEN Add32(n1, W(1)) ELSE n1
    IN [peer |-> [peer EXCEPT !.next_rel_seq = n2],
        out  |-> IF segment.data # <<>> THEN <<segment>> ELSE <<>>]

\* The loop of send_peer_segments; out collects the delivered segments.
RECURSIVE SendLoop(_, _, _)
SendLoop(peer, rel_ack, out) ==
    IF peer.segments = <<>> THEN [peer |-> peer, out |-> out]
    ELSE
    LET head == Head(peer.segments) IN
    IF Gt32(peer.next_rel_seq, rel_ack) THEN [peer |-> peer, out |-> out]
    ELSE IF rel_ack = head.rel_seq THEN [peer |-> peer, out |-> out]
    ELSE
    LET popped == [peer EXCEPT !.segments = Tail(peer.segments)] IN
    IF Lt32(rel_ack, head.rel_seq) THEN SendLoop(popped, rel_ack, out)
    ELSE IF Lt32(rel_ack, Add32(head.rel_seq, W(Len(head.data))))
    THEN \* ACK for part of the buffer: split, and queue the rest again
         LET at == ToNat(Sub32(rel_ack, head.rel_seq))
             first == [head EXCEPT !.data = SubSeq(head.data, 1, at)]
             remaining == [head EXCEPT
                             !.data = SubSeq(head.data, at + 1, Len(head.data)),
                             !.rel_ack = rel_ack]
             requeued == [popped EXCEPT
                            !.segments = InsertSorted(popped.segments, remaining)]
             sent == SendSingleSegment(requeued, first)
         IN SendLoop(sent.peer, rel_ack, out \o sent.out)
    ELSE LET sent == SendSingleSegment(popped, head)
         IN SendLoop(sent.peer, rel_ack, out \o sent.out)

\* send_peer_segments without the early return on rel_ack == last_rel_ack.
SendPeerSegmentsNoDupCheck(peer, rel_ack) ==
    LET r == SendLoop(peer, rel_ack, <<>>)
    IN [peer |-> [r.peer EXCEPT !.last_rel_ack = rel_ack], out |-> r.out]

\* send_peer_segments(origin, _, rel_ack, ..): `peer` is its first argument,
\* the side whose queued data the ACK acknowledges.
SendPeerSegments(peer, rel_ack) ==
    IF rel_ack = peer.last_rel_ack THEN [peer |-> peer, out |-> <<>>]
    ELSE LET r == SendLoop(peer, rel_ack, <<>>)
         IN [peer |-> [r.peer EXCEPT !.last_rel_ack = rel_ack], out |-> r.out]

(***************************************************************************)
(* TcpStream.  A TCP packet is a record [to_server, seq, ack, flags,       *)
(* payload, ts]: the direction the caller computed, the header fields the  *)
(* code reads, the payload bytes and flow.last_seen (seconds).             *)
(***************************************************************************)
\* (origin, destination) = if to_server (client, server) else (server, client)
Origin(s, to_server) == IF to_server THEN s.client ELSE s.server
Destination(s, to_server) == IF to_server THEN s.server ELSE s.client

WithPeers(s, to_server, origin, destination) ==
    IF to_server
    THEN [s EXCEPT !.client = origin, !.server = destination]
    ELSE [s EXCEPT !.server = origin, !.client = destination]

\* TcpStream::handle_new_connection, arm by arm.  res is "Ok", an error,
\* or "panic" for the unreachable!() arm.
\* Closed: an RST is accepted, anything but a SYN is an anomaly, a SYN
\* opens the connection.
NewConnectionClosed(s, p) ==
    LET conn == Origin(s, p.to_server)
        rev_conn == Destination(s, p.to_server)
    IN IF "RST" \in p.flags THEN [stream |-> s, res |-> "Ok", out |-> <<>>]
       ELSE IF "SYN" \notin p.flags
       THEN [stream |-> s, res |-> "Anomaly", out |-> <<>>]
       ELSE LET c == [conn EXCEPT !.isn = p.seq,
                                  !.next_rel_seq = W(1),
                                  !.status = "SynSent"]
                r == [rev_conn EXCEPT !.ian = p.seq,
                                      !.status = "Listen"]
            IN [stream |-> [WithPeers(s, p.to_server, c, r)
                              EXCEPT !.status = "SynSent"],
                res |-> "Ok", out |-> <<>>]

\* The Listen arm recording the isn of the sender before the ack number is
\* checked.
NewConnectionListenIsnFirst(s, p) ==
    LET conn == Origin(s, p.to_server)
        rev_conn == Destination(s, p.to_server)
        c0 == [conn EXCEPT !.isn = p.seq, !.next_rel_seq = W(1)]
    IN IF p.ack # Add32(rev_conn.isn, W(1))
       THEN [stream |-> WithPeers(s, p.to_server, c0, rev_conn),
             res |-> "HandshakeFailed", out |-> <<>>]
       ELSE LET c == [c0 EXCEPT !.status = "SynRcv"]
                r == [rev_conn EXCEPT !.ian = p.seq,
                                      !.last_rel_ack = W(1)]
            IN [stream |-> [WithPeers(s, p.to_server, c, r)
                              EXCEPT !.status = "SynRcv"],
                res |-> "Ok", out |-> <<>>]

\* Listen: the flags are not checked, the ack number is.
NewConnectionListen(s, p) ==
    LET conn == Origin(s, p.to_server)
        rev_conn == Destination(s, p.to_server)
    IN IF p.ack # Add32(rev_conn.isn, W(1))
       THEN [stream |-> s, res |-> "HandshakeFailed", out |-> <<>>]
       ELSE LET c == [conn EXCEPT !.isn = p.seq,
                                  !.next_rel_seq = W(1),
                                  !.status = "SynRcv"]
                r == [rev_conn EXCEPT !.ian = p.seq,
                                      !.last_rel_ack = W(1)]
            IN [stream |-> [WithPeers(s, p.to_server, c, r)
                              EXCEPT !.status = "SynRcv"],
                res |-> "Ok", out |-> <<>>]

\* The SynSent arm without `rev_conn.last_rel_ack = Wrapping(1)`.
NewConnectionSynSentNoAck(s, p) ==
    LET conn == Origin(s, p.to_server)
        rev_conn == Destination(s, p.to_server)
    IN IF p.ack # Add32(rev_conn.isn, W(1))
       THEN [stream |-> s, res |-> "HandshakeFailed", out |-> <<>>]
       ELSE LET c == [conn EXCEPT !.status = "Established"]
                r == [rev_conn EXCEPT !.status = "Established"]
            IN [stream |-> [WithPeers(s, p.to_server, c, r)
                              EXCEPT !.status = "Established"],
                res |-> "Ok", out |-> <<>>]

\* SynSent: the flags are not checked, the ack number is.
NewConnectionSynSent(s, p) ==
    LET conn == Origin(s, p.to_server)
        rev_conn == Destination(s, p.to_server)
    IN IF p.ack # Add32(rev_conn.isn, W(1))
       THEN [stream |-> s, res |-> "HandshakeFailed", out |-> <<>>]
       ELSE LET c == [conn EXCEPT !.status = "Established"]
                r == [rev_conn EXCEPT !.status = "Established",
                                      !.last_rel_ack = W(1)]
            IN [stream |-> [WithPeers(s, p.to_server, c, r)
                              EXCEPT !.status = "Established"],
                res |-> "Ok", out |-> <<>>]

HandleNewConnection(s, p) ==
    LET status == Origin(s, p.to_server).status
    IN CASE status = "Closed" -> NewConnectionClosed(s, p)
         [] status = "Listen" -> NewConnectionListen(s, p)
         [] status = "SynSent" -> NewConnectionSynSent(s, p)
         [] OTHER -> [stream |-> s, res |-> "panic", out |-> <<>>]

\* The TcpSegment both handlers build from the packet.
SegmentOf(s, p, idx) ==
    [rel_seq |-> Sub32(p.seq, Origin(s, p.to_server).isn),
     rel_ack |-> Sub32(p.ack, Destination(s, p.to_server).isn),
     flags |-> p.flags, data |-> p.payload, pcap_index |-> idx]

\* TcpStream::handle_established_connection
HandleEstablishedConnection(s, p, idx) ==
    LET segment == SegmentOf(s, p, idx)
        origin == QueueSegment(Origin(s, p.to_server), segment)
        destination == Destination(s, p.to_server)
        sent == IF "ACK" \in p.flags
                THEN SendPeerSegments(destination, segment.rel_ack)
                ELSE [peer |-> destination, out |-> <<>>]
    IN [stream |-> WithPeers(s, p.to_server, origin, sent.peer),
        res |-> "Ok", out |-> sent.out]

\* The removal on RST that compares the sequence numbers of the segments
RetainOnRstBySeq(segs, rel_seq) ==
    SelectSeq(segs, LAMBDA q : q.rel_seq # rel_seq)

\* destination.segments.retain(|s| s.rel_ack != rel_seq)
RetainOnRst(segs, rel_seq) ==
    SelectSeq(segs, LAMBDA q : q.rel_ack # rel_seq)

\* TcpStream::handle_closing_connection
HandleClosingConnection(s, p, idx) ==
    LET segment == SegmentOf(s, p, idx)
        origin == Origin(s, p.to_server)
        sent == IF "ACK" \in p.flags
                THEN SendPeerSegments(Destination(s, p.to_server), segment.rel_ack)
                ELSE [peer |-> Destination(s, p.to_server), out |-> <<>>]
        destination == sent.peer
    IN IF "RST" \in p.flags
       THEN LET kept == RetainOnRst(destination.segments, segment.rel_seq)
            IN [stream |-> WithPeers(s, p.to_server,
                                     [origin EXCEPT !.status = "Closed"],
                                     [destination EXCEPT !.segments = kept]),
                res |-> "Ok", out |-> sent.out]
       ELSE LET queued == QueueSegment(origin, segment)
                moved == IF queued.status = "Established"
                         THEN [queued EXCEPT !.status = "FinWait1"]
                         ELSE queued
            IN [stream |-> WithPeers(s, p.to_server, moved, destination),
                res |-> "Ok", out |-> sent.out]

\* TcpStream::expire
Expire(s) == [s EXCEPT !.client.status = "Closed", !.server.status = "Closed"]

\* The test of the delay that lets a stream expire already at the timeout
TimedOutAtTimeout(elapsed, timeout) == elapsed >= timeout

\* `flow.last_seen - stream.last_seen_ts > self.timeout`, on times in
\* seconds of which the first is not before the second.
TimedOut(elapsed, timeout) == elapsed > timeout

\* The body of TcpStreamReassembly::update on the stream s of the flow
\* (a new TcpStream when the map has none).
UpdateStream(s, p, idx, timeout) ==
    IF TimedOut(p.ts - s.last_seen_ts, timeout)
    THEN [stream |-> Expire(s), res |-> "Expired", out |-> <<>>]
    ELSE LET s1 == [s EXCEPT !.last_seen_ts = p.ts]
             status == Origin(s1, p.to_server).status
         IN CASE status \in {"Closed", "Listen", "SynSent", "SynRcv"} ->
                   HandleNewConnection(s1, p)
              [] status = "Established" ->
                   IF p.flags \cap {"FIN", "RST"} # {}
                   THEN HandleClosingConnection(s1, p, idx)
                   ELSE HandleEstablishedConnection(s1, p, idx)
              [] OTHER -> HandleClosingConnection(s1, p, idx)

\* check_expired_connections that drops the streams it expires
CheckExpiredConnectionsRemoving(table, now, timeout) ==
    LET kept == {f \in DOMAIN table :
                    now < table[f].last_seen_ts
                      \/ ~(now - table[f].last_seen_ts > timeout)}
    IN [f \in kept |-> table[f]]

\* check_expired_connections(now) on the map of the streams: a stream last
\* seen after now is skipped, one idle for more than the timeout expires.
CheckExpiredConnections(table, now, timeout) ==
    [f \in DOMAIN table |->
        IF now < table[f].last_seen_ts THEN table[f]
        ELSE IF now - table[f].last_seen_ts > timeout THEN Expire(table[f])
        ELSE table[f]]

(***************************************************************************)
(* Packets as the dispatcher reads them.  A slice is the sequence of its   *)
(* bytes.  X::new(data) is Some for a slice that has the bytes of the      *)
(* header of X, whatever they hold, and the getters read the fields where  *)
(* the header has them.                                                    *)
(***************************************************************************)
\* EtherType values matched by handle_l3.
EtherTypesIpv4 == 2048
EtherTypesArp == 2054
EtherTypesVlan == 33024
EtherTypeErspan == 35006
EtherTypesIpv6 == 34525
EtherTypePpp == 34827
EtherTypesPppoeSession == 34916

\* IpNextHeaderProtocol values matched by handle_l3_common and is_ipv6_opt.
IpNextHeaderProtocolsHopopt == 0
IpNextHeaderProtocolsIcmp == 1
IpNextHeaderProtocolsIpv4 == 4
IpNextHeaderProtocolsTcp == 6
IpNextHeaderProtocolsUdp == 17
IpNextHeaderProtocolsIpv6 == 41
IpNextHeaderProtocolsIpv6Route == 43
IpNextHeaderProtocolsIpv6Frag == 44
IpNextHeaderProtocolsGre == 47
IpNextHeaderProtocolsEsp == 50
IpNextHeaderProtocolsAh == 51
IpNextHeaderProtocolsIcmpv6 == 58
IpNextHeaderProtocolsIpv6NoNxt == 59
IpNextHeaderProtocolsIpv6Opts == 60
IpNextHeaderProtocolsMobilityHeader == 135

\* PppProtocolType values matched by handle_l3_ppp.
PppProtocolTypesIpv4 == 33
PppProtocolTypesIpv6 == 87

\* The UDP port handle_l4_udp takes for VXLAN.
VxlanPort == 4789

\* LinkLayerType::Ethernet as u16
LinkLayerTypeEthernet == 1

\* A slice of no bytes, and a slice of one byte, too short for any header.
EmptyData == <<>>
RawData == <<170>>

\* Option<&[u8]>: None, and Some(x).
NoPayload == <<>>
Some(x) == <<x>>

\* &data[start..] for start <= data.len(), and &data[..end].
SliceFrom(data, start) == SubSeq(data, start + 1, Len(data))
SliceTo(data, end) == SubSeq(data, 1, end)

\* The u16 that the two bytes from offset at on hold (big-endian), and the
\* two bytes of a u16.
U16(data, at) == data[at + 1] * 256 + data[at + 2]
Be16(n) == <<(n \div 256) % 256, n % 256>>

\* The u32 that the four bytes from offset at on hold, as a Wrapping<u32>.
U32(data, at) == <<U16(data, at), U16(data, at + 2)>>

\* std::cmp::min
Min(a, b) == IF a < b THEN a ELSE b

\* The bytes of the header of a packet of this crate: ErspanPacket,
\* VxlanPacket, PppoeSessionPacket, PppPacket.  new(data) is Some for a
\* slice that has them, and payload() is what follows them.
CrateHeaderSize(kind) ==
    CASE kind \in {"erspan", "vxlan"} -> 8
      [] kind = "pppoesession" -> 6
      [] kind = "ppp" -> 2

\* minimum_packet_size of X: the bytes X::new(data) needs to be Some.
MinimumPacketSize(kind) ==
    CASE kind = "eth" -> 14
      [] kind \in {"vlan", "gre", "icmp", "icmpv6"} -> 4
      [] kind \in {"udp", "fragment"} -> 8
      [] kind = "extension" -> 2
      [] kind \in {"ipv4", "tcp"} -> 20
      [] kind = "ipv6" -> 40
      [] OTHER -> CrateHeaderSize(kind)

\* X::new(data) is None.
TooShort(data, kind) == Len(data) < MinimumPacketSize(kind)

\* pnet util::sum_be_words from word i on: the sum of the 16-bit words of
\* the slice without the word skipword; the last byte of a slice of odd
\* length counts as the high byte of a word.
RECURSIVE SumBeWords(_, _, _)
SumBeWords(data, skipword, i) ==
    IF 2 * i + 2 > Len(data)
    THEN IF Len(data) % 2 = 1 THEN data[Len(data)] * 256 ELSE 0
    ELSE (IF i = skipword THEN 0 ELSE U16(data, 2 * i))
            + SumBeWords(data, skipword, i + 1)

\* pnet util::finalize_checksum: the carries are added back, then the
\* one's complement is taken.
FinalizeChecksum(sum) ==
    LET fold(s) == (s \div Half) + (s % Half)
    IN Half - 1 - fold(fold(fold(sum)))

\* pnet util::checksum
Checksum(data, skipword) == FinalizeChecksum(SumBeWords(data, skipword, 0))

\* What the getters of Ipv4Packet return, for a slice of 20 bytes or more:
\* the low 4 bits of byte 0, bytes 2-3, bytes 4-5, the high 3 bits of byte
\* 6, the low 13 bits of bytes 6-7, byte 9, bytes 10-11, bytes 12-15,
\* bytes 16-19.  Bit 0 of the flags is Ipv4Flags::MoreFragments.
Ipv4Header(data) ==
    [header_length |-> data[1] % 16,
     total_length |-> U16(data, 2),
     identification |-> U16(data, 4),
     flags |-> data[7] \div 32,
     fragment_offset |-> U16(data, 6) % 8192,
     next_level_protocol |-> data[10],
     checksum |-> U16(data, 10),
     source |-> SubSeq(data, 13, 16),
     destination |-> SubSeq(data, 17, 20)]

\* ipv4.payload(): from the end of the options on, for as many bytes as the
\* total length leaves after the header, or as the slice has.
Ipv4Payload(data) ==
    LET header == Ipv4Header(data).header_length * 4
        total == Ipv4Header(data).total_length
        start == 20 + (IF header > 20 THEN header - 20 ELSE 0)
        length == IF total > header THEN total - header ELSE 0
    IN IF Len(data) <= start THEN EmptyData
       ELSE SubSeq(data, start + 1, Min(start + length, Len(data)))

\* pnet ipv4::checksum: the checksum of the bytes of the header, as many as
\* the header length says, at least 20 and at most what the slice has,
\* without the checksum field.
Ipv4Checksum(data) ==
    LET header == Ipv4Header(data).header_length * 4
        length == IF header < 20 THEN 20
                  ELSE IF header > Len(data) THEN Len(data) ELSE header
    IN Checksum(SliceTo(data, length), 5)

\* What the getters of Ipv6Packet return, for a slice of 40 bytes or more.
Ipv6Header(data) ==
    [payload_length |-> U16(data, 4),
     next_header |-> data[7],
     source |-> SubSeq(data, 9, 24),
     destination |-> SubSeq(data, 25, 40)]

\* ipv6.payload(): as many bytes after the header as the payload length
\* says, or as the slice has.
Ipv6Payload(data) ==
    IF Len(data) <= 40 THEN EmptyData
    ELSE SubSeq(data, 41, Min(40 + Ipv6Header(data).payload_length,
                              Len(data)))

\* FragmentPacket::new(payload): None for a slice of less than 8 bytes
\* (<<>>), otherwise what get_fragment_offset, is_last_fragment and get_id
\* return.
FragmentPacketNew(payload) ==
    IF TooShort(payload, "fragment") THEN <<>>
    ELSE <<[fragment_offset |-> U16(payload, 2) \div 8,
            last_fragment |-> U16(payload, 2) % 2 = 0,
            id |-> U32(payload, 4)]>>

\* tcp.payload(): what follows the header and its options.
TcpPayload(data) ==
    LET data_offset == data[13] \div 16
        start == 20 + (IF data_offset > 5 THEN data_offset * 4 - 20 ELSE 0)
    IN IF Len(data) <= start THEN EmptyData ELSE SliceFrom(data, start)

\* What the getters of GrePacket return, for a slice of 4 bytes or more:
\* the four high bits of byte 0, and bytes 2-3.
GreHeader(data) ==
    [checksum_present |-> data[1] \div 128,
     routing_present |-> (data[1] \div 64) % 2,
     key_present |-> (data[1] \div 32) % 2,
     sequence_present |-> (data[1] \div 16) % 2,
     protocol_type |-> U16(data, 2)]

\* gre.payload() of a header without routing: what follows the header and
\* the checksum and offset (2 bytes each), the key and the sequence number
\* its flags announce.
GrePayload(data) ==
    LET gre == GreHeader(data)
        start == 4 + gre.checksum_present * (2 + 2) + gre.key_present * 4
                   + gre.sequence_present * 4
    IN IF Len(data) <= start THEN EmptyData ELSE SliceFrom(data, start)

\* pnet icmp::checksum: over the whole ICMP packet, without its checksum
\* field.
IcmpChecksum(data) == Checksum(data, 1)

\* pnet icmpv6::checksum: over the pseudo-header (the addresses, the next
\* header 58, the length) and the whole ICMPv6 packet, without its checksum
\* field.
Icmpv6Checksum(data, src, dst) ==
    FinalizeChecksum(SumBeWords(src, Len(src), 0) + SumBeWords(dst, Len(dst), 0)
                       + IpNextHeaderProtocolsIcmpv6 + Len(data)
                       + SumBeWords(data, 1, 0))

\* An address is IpAddr::V6: it has 16 bytes, an IpAddr::V4 has 4.
IsV6(addr) == Len(addr) = 16

\* ThreeTuple, L3Info and FiveTuple::from_three_tuple
ThreeTuple(proto, src, dst) == [proto |-> proto, src |-> src, dst |-> dst]
L3Info(three_tuple, l4_proto) ==
    [three_tuple |-> three_tuple, l4_proto |-> l4_proto]
L3InfoDefault == L3Info(ThreeTuple(0, <<0, 0, 0, 0>>, <<0, 0, 0, 0>>), 0)
FromThreeTuple(t3, src_port, dst_port, l4_proto) ==
    [l3_proto |-> t3.proto, src |-> t3.src, dst |-> t3.dst,
     src_port |-> src_port, dst_port |-> dst_port, proto |-> l4_proto]
GetReverse(ft) ==
    [ft EXCEPT !.src = ft.dst, !.dst = ft.src,
               !.src_port = ft.dst_port, !.dst_port = ft.src_port]

(***************************************************************************)
(* The bytes of the packets the analyzer is driven with, header by header. *)
(***************************************************************************)
\* The two hosts, over IPv4 and over IPv6.
ClientAddr == <<10, 0, 0, 1>>
ServerAddr == <<10, 0, 0, 2>>
Client6Addr == <<254, 128, 0, 0, 0, 0, 0, 0, 0, 0, 0, 0, 0, 0, 0, 1>>
Server6Addr == <<254, 128, 0, 0, 0, 0, 0, 0, 0, 0, 0, 0, 0, 0, 0, 2>>

\* Destination addresses of an Ethernet frame: a host, the two Cisco
\* addresses handle_l2 drops, another multicast address.
MacAddr(dest) ==
    CASE dest = "unicast" -> <<2, 0, 0, 0, 0, 1>>
      [] dest = "cisco_cdp" -> <<1, 0, 12, 204, 204, 204>>
      [] dest = "cisco_multicast" -> <<1, 0, 12, 205, 205, 208>>
      [] dest = "multicast" -> <<1, 0, 94, 0, 0, 1>>

\* The bytes of a u32 below 2^31.
Be32(n) == Be16(n \div Half) \o Be16(n % Half)

\* data with the bytes at offset at replaced.
WithBytes(data, at, bytes) ==
    [i \in 1..Len(data) |->
       IF i > at /\ i <= at + Len(bytes) THEN bytes[i - at] ELSE data[i]]

EthernetPacket(dest, ethertype, payload) ==
    MacAddr(dest) \o <<2, 0, 0, 0, 0, 2>> \o Be16(ethertype) \o payload
VlanPacket(ethertype, payload) == <<0, 1>> \o Be16(ethertype) \o payload
ErspanPacket(payload) == <<16, 1, 0, 1, 0, 0, 0, 0>> \o payload
VxlanPacket(payload) == <<8, 0, 0, 0, 0, 0, 1, 0>> \o payload
PppoeSessionPacket(payload) ==
    <<17, 0, 0, 1>> \o Be16(Len(payload)) \o payload
PppPacket(protocol, payload) == Be16(protocol) \o payload
\* A GRE packet without checksum, routing, key, sequence number and
\* acknowledgment number: the 4 bytes of the header, then the payload.
GrePacket(protocol_type, payload) ==
    <<0, 0>> \o Be16(protocol_type) \o payload
\* The same with the key present bit and the 4 bytes of the key, as in the
\* GRE header of PPTP (version 1).
GreKeyPacket(protocol_type, payload) ==
    <<32, 1>> \o Be16(protocol_type) \o Be16(Len(payload)) \o <<0, 1>>
       \o payload

\* An IPv4 datagram with a header of 20 bytes that says header_length
\* words and total_length bytes, with the checksum of that header.
Ipv4Datagram(header_length, total_length, identification, more_fragments, fragment_offset, src, dst, proto, payload) ==
    LET header(checksum) ==
            <<64 + header_length, 0>> \o Be16(total_length)
               \o Be16(identification)
               \o Be16((IF more_fragments THEN 8192 ELSE 0) + fragment_offset)
               \o <<64, proto>> \o Be16(checksum) \o src \o dst
    IN header(Ipv4Checksum(header(0))) \o payload

\* An IPv4 datagram that is no fragment (offset 0, no MoreFragments), with
\* a header of 5 words without options and a total length that is the
\* length of the slice.
Ipv4Packet(src, dst, proto, payload) ==
    Ipv4Datagram(5, 20 + Len(payload), 0, FALSE, 0, src, dst, proto, payload)

\* An IPv6 packet without extension headers: next_header is the protocol of
\* its payload.
Ipv6Packet(src, dst, next_header, payload) ==
    <<96, 0, 0, 0>> \o Be16(Len(payload)) \o <<next_header, 64>>
       \o src \o dst \o payload

\* An extension header of 8 bytes, and the fragment header of an IPv6
\* packet.
ExtensionPacket(next_header) == <<next_header, 0, 0, 0, 0, 0, 0, 0>>
FragmentPacket(next_header, id, fragment_offset, last_fragment) ==
    <<next_header, 0>>
       \o Be16(fragment_offset * 8 + (IF last_fragment THEN 0 ELSE 1))
       \o Be32(id)

\* A TCP segment with a header of 5 words.
TcpHeader(src_port, dst_port, seq, ack, flags) ==
    Be16(src_port) \o Be16(dst_port) \o Be32(seq) \o Be32(ack)
       \o <<80, (IF "FIN" \in flags THEN 1 ELSE 0)
                  + (IF "SYN" \in flags THEN 2 ELSE 0)
                  + (IF "RST" \in flags THEN 4 ELSE 0)
                  + (IF "PSH" \in flags THEN 8 ELSE 0)
                  + (IF "ACK" \in flags THEN 16 ELSE 0)>>
       \o <<255, 255, 0, 0, 0, 0>>
TcpPacket(src_port, dst_port) ==
    TcpHeader(src_port, dst_port, 0, 0, {}) \o RawData
UdpPacket(src_port, dst_port, payload) ==
    Be16(src_port) \o Be16(dst_port) \o Be16(8 + Len(payload)) \o <<0, 0>>
       \o payload

\* An ICMP packet (identifier 1, sequence number 1) with its checksum, and
\* an ICMPv6 one with the checksum it has between src and dst.
IcmpPacket(type, code) ==
    LET packet(checksum) == <<type, code>> \o Be16(checksum) \o <<0, 1, 0, 1>>
    IN packet(IcmpChecksum(packet(0)))
Icmpv6Packet(type, code, src, dst) ==
    LET packet(checksum) == <<type, code>> \o Be16(checksum) \o <<0, 1, 0, 1>>
    IN packet(Icmpv6Checksum(packet(0), src, dst))


(***************************************************************************)
(* The flow table (FlowMap): flows, by id; flows_id, from a 5-tuple to the *)
(* id of its flow; the counter the ids are taken from.                     *)
(***************************************************************************)
FlowMapDefault == [flows |-> <<>>, flows_id |-> <<>>, next_id |-> 1]

\* Flow::new(five_tuple, secs, micros): the id is set by the caller.
FlowNew(five_tuple, ts) ==
    [flow_id |-> 0, five_tuple |-> five_tuple,
     first_seen |-> ts, last_seen |-> ts]

\* lookup_flow: the set of the id, empty for None.
LookupFlow(fm, five_tuple) ==
    IF five_tuple \in DOMAIN fm.flows_id
    THEN {fm.flows_id[five_tuple]} ELSE {}

\* insert_flow taking the id from the size of the table: an id is free
\* again once the table is cleared.
InsertFlowReusingIds(fm, five_tuple, flow) ==
    LET rev == LookupFlow(fm, GetReverse(five_tuple))
    IN IF rev # {}
       THEN LET id == CHOOSE i \in rev : TRUE
            IN [fm |-> [fm EXCEPT !.flows_id =
                          [t \in DOMAIN fm.flows_id \cup {five_tuple} |->
                             IF t = five_tuple THEN id ELSE fm.flows_id[t]]],
                id |-> id, fresh |-> FALSE]
       ELSE LET id == Cardinality(DOMAIN fm.flows) + 1
            IN [fm |-> [flows |-> [i \in DOMAIN fm.flows \cup {id} |->
                                     IF i = id THEN flow ELSE fm.flows[i]],
                        flows_id |->
                          [t \in DOMAIN fm.flows_id
                                   \cup {five_tuple, GetReverse(five_tuple)} |->
                             IF t \in {five_tuple, GetReverse(five_tuple)}
                             THEN id ELSE fm.flows_id[t]],
                        next_id |-> fm.next_id + 1],
                id |-> id, fresh |-> TRUE]

\* insert_flow: the reverse 5-tuple is looked up first; otherwise a new id
\* is taken from the counter and both directions are mapped to it.
InsertFlow(fm, five_tuple, flow) ==
    LET rev == LookupFlow(fm, GetReverse(five_tuple))
    IN IF rev # {}
       THEN LET id == CHOOSE i \in rev : TRUE
            IN [fm |-> [fm EXCEPT !.flows_id =
                          [t \in DOMAIN fm.flows_id \cup {five_tuple} |->
                             IF t = five_tuple THEN id ELSE fm.flows_id[t]]],
                id |-> id, fresh |-> FALSE]
       ELSE LET id == fm.next_id
            IN [fm |-> [flows |-> [i \in DOMAIN fm.flows \cup {id} |->
                                     IF i = id THEN flow ELSE fm.flows[i]],
                        flows_id |->
                          [t \in DOMAIN fm.flows_id
                                   \cup {five_tuple, GetReverse(five_tuple)} |->
                             IF t \in {five_tuple, GetReverse(five_tuple)}
                             THEN id ELSE fm.flows_id[t]],
                        next_id |-> fm.next_id + 1],
                id |-> id, fresh |-> TRUE]

\* clear(): both maps are emptied, the counter goes on.
ClearFlows(fm) == [fm EXCEPT !.flows = <<>>, !.flows_id = <<>>]

\* The flows modification section of handle_l4_common without
\* `flow.flow_id = flow_id`.
FlowsSectionNoId(fm, five_tuple, now) ==
    LET found == LookupFlow(fm, five_tuple)
        ins == InsertFlow(fm, five_tuple, FlowNew(five_tuple, now))
        fm1 == IF found # {} THEN fm ELSE ins.fm
        flow_id == IF found # {} THEN CHOOSE i \in found : TRUE ELSE ins.id
    IN [fm |-> IF flow_id \in DOMAIN fm1.flows
               THEN [fm1 EXCEPT !.flows[flow_id].last_seen = now]
               ELSE fm1,
        flow_id |-> flow_id,
        created |-> IF found # {} THEN <<>> ELSE <<FlowNew(five_tuple, now)>>,
        fresh |-> IF found = {} /\ ins.fresh THEN <<flow_id>> ELSE <<>>]

\* The flows modification section of handle_l4_common: the id of the
\* packet's flow, a new flow being announced and inserted when the lookup
\* finds none, then flow_id and last_seen are written into the flow.
\* created is the flow given to gen_event_new_flow, fresh the id when
\* insert_flow took a new one.
FlowsSection(fm, five_tuple, now) ==
    LET found == LookupFlow(fm, five_tuple)
        ins == InsertFlow(fm, five_tuple, FlowNew(five_tuple, now))
        fm1 == IF found # {} THEN fm ELSE ins.fm
        flow_id == IF found # {} THEN CHOOSE i \in found : TRUE ELSE ins.id
    IN [fm |-> IF flow_id \in DOMAIN fm1.flows
               THEN [fm1 EXCEPT !.flows[flow_id].flow_id = flow_id,
                                !.flows[flow_id].last_seen = now]
               ELSE fm1,
        flow_id |-> flow_id,
        created |-> IF found # {} THEN <<>> ELSE <<FlowNew(five_tuple, now)>>,
        fresh |-> IF found = {} /\ ins.fresh THEN <<flow_id>> ELSE <<>>]

(***************************************************************************)
(* The plugin registry.  A plugin has a type mask (the callbacks it        *)
(* wants), the layer and filter it is registered for, and the results its  *)
(* layer callback may return.                                              *)
(***************************************************************************)
Registry ==
    << [types |-> {"L3", "FLOW_NEW", "FLOW_DEL"}, layer |-> 3,
        filter |-> EtherTypesIpv4, returns |-> {"None", "Error", "L2", "L3"}],
       [types |-> {"L3"}, layer |-> 3, filter |-> 0, returns |-> {"None"}],
       [types |-> {"L4", "FLOW_DEL"}, layer |-> 4,
        filter |-> IpNextHeaderProtocolsUdp, returns |-> {"None", "L4"}],
       [types |-> {"L1"}, layer |-> 1, filter |-> 0, returns |-> {"None"}],
       [types |-> {"L2"}, layer |-> 2, filter |-> LinkLayerTypeEthernet,
        returns |-> {"None", "Error"}],
       [types |-> {"L4", "FLOW_DEL"}, layer |-> 4,
        filter |-> IpNextHeaderProtocolsTcp, returns |-> {"None"}],
       [types |-> {"L3"}, layer |-> 3, filter |-> EtherTypesIpv4,
        returns |-> {"None"}],
       [types |-> {"L3"}, layer |-> 3, filter |-> 0, returns |-> {"None"}] >>

Plugins == 1..Len(Registry)

\* The plugins of a set, in registration order.
RECURSIVE InOrder(_, _)
InOrder(from, wanted) ==
    IF from > Len(Registry) THEN <<>>
    ELSE (IF wanted[from] THEN <<from>> ELSE <<>>) \o InOrder(from + 1, wanted)

\* get_plugins_for_layer(layer, filter)
GetPluginsForLayer(layer, filter) ==
    InOrder(1, [p \in Plugins |-> Registry[p].layer = layer
                                    /\ Registry[p].filter = filter])

\* run_plugins(filter, cb): the plugins the callback is run on
RunPlugins(type) ==
    InOrder(1, [p \in Plugins |-> type = "ALL" \/ type \in Registry[p].types])

\* No PacketInfo: the callbacks below the transport layer are not given one.
NoPinfo == [five_tuple |-> FromThreeTuple(L3InfoDefault.three_tuple, 0, 0, 0),
            to_server |-> FALSE, l3_type |-> 0, l4_data |-> EmptyData,
            l4_type |-> 0, l4_payload |-> NoPayload, flow |-> {},
            pcap_index |-> 0]

\* The call of one callback of one plugin: the arguments it was given
\* besides the packet (args; the PacketInfo of a transport callback and the
\* Flow of a flow callback are in pinfo), and the kind of result it
\* returned ("None" for the callbacks that return nothing).
Call(cb, plugin, layer, args, pinfo, result) ==
    [cb |-> cb, plugin |-> plugin, layer |-> layer, args |-> args,
     pinfo |-> pinfo, result |-> result]

\* flow_created / flow_destroyed of a plugin for a flow, post_process
FlowCall(cb, plugin, flow) ==
    Call(cb, plugin, 0, <<>>, [NoPinfo EXCEPT !.flow = {flow}], "None")
PostProcessCall(plugin) ==
    Call("post_process", plugin, 0, <<>>, NoPinfo, "None")

\* gen_event_new_flow
GenEventNewFlow(flow) ==
    LET ps == RunPlugins("FLOW_NEW")
    IN [i \in 1..Len(ps) |-> FlowCall("flow_created", ps[i], flow)]

RECURSIVE Flatten(_)
Flatten(ss) == IF ss = <<>> THEN <<>> ELSE Head(ss) \o Flatten(Tail(ss))

\* teardown calling post_process before the flows are announced destroyed.
TeardownCallsPostFirst(fm, order) ==
    LET del == RunPlugins("FLOW_DEL")
        all == RunPlugins("ALL")
    IN [i \in 1..Len(all) |-> PostProcessCall(all[i])]
       \o Flatten([i \in 1..Len(del) |->
                     [j \in 1..Len(order) |->
                        FlowCall("flow_destroyed", del[i], fm.flows[order[j]])]])

\* The callbacks of teardown: every plugin with PLUGIN_FLOW_DEL is given
\* every flow of the table (order is the order of flows.values()), then
\* every plugin is given post_process.
TeardownCalls(fm, order) ==
    LET del == RunPlugins("FLOW_DEL")
        all == RunPlugins("ALL")
    IN Flatten([i \in 1..Len(del) |->
                  [j \in 1..Len(order) |->
                     FlowCall("flow_destroyed", del[i], fm.flows[order[j]])]])
       \o [i \in 1..Len(all) |-> PostProcessCall(all[i])]

(***************************************************************************)
(* The handlers, as tasks on a stack: the task on top is the code that runs *)
(* next, the ones below are what their callers still have to do.  A handler *)
(* runs up to its next plugin loop, which it leaves on the stack as a task  *)
(* of its own followed by the rest of the handler.                          *)
(***************************************************************************)
L2Task(data) == [t |-> "handle_l2", data |-> data]
EthTask(data) == [t |-> "ethernet", data |-> data]
L3Task(ethertype, data) ==
    [t |-> "handle_l3", ethertype |-> ethertype, data |-> data]
L3CommonTask(l3_info, data) ==
    [t |-> "handle_l3_common", l3_info |-> l3_info, data |-> data]
L4CommonTask(l4_data, l3_info, src_port, dst_port, l4_payload) ==
    [t |-> "handle_l4_common", l4_data |-> l4_data, l3_info |-> l3_info,
     src_port |-> src_port, dst_port |-> dst_port,
     l4_payload |-> l4_payload]

\* What handle_l3_ipv4 still has to do when its network plugins have run:
\* data is the datagram without its padding, orig_len the length of the
\* slice the handler was given.
Ipv4DefragTask(t3, data, orig_len) ==
    [t |-> "handle_l3_ipv4_defrag", t3 |-> t3, data |-> data,
     orig_len |-> orig_len]
\* What handle_l3_ipv6 still has to do when its network plugins have run:
\* data is the payload after the extension headers, l4_proto the protocol
\* the last of them announces, frag_ext the fragment header (<<>> for None).
Ipv6RestTask(t3, l4_proto, frag_ext, data) ==
    [t |-> "handle_l3_ipv6_rest", t3 |-> t3, l4_proto |-> l4_proto,
     frag_ext |-> frag_ext, data |-> data]
\* What handle_l4_ipv6frag still has to do when update has returned the
\* datagram: the match on l4_proto.
Ipv6FragL4Task(l3_info, data) ==
    [t |-> "handle_l4_ipv6frag_l4", l3_info |-> l3_info, data |-> data]

\* run_plugins_v2 with the catch-all plugins chained before the plugins of
\* the filter.
PluginsTaskCatchAllFirst(layer, layer_filter, cb, args, pinfo) ==
    [t |-> "run_plugins_v2", layer |-> layer, filter |-> layer_filter,
     cb |-> cb, args |-> args, pinfo |-> pinfo,
     todo |-> GetPluginsForLayer(layer, 0)
                \o GetPluginsForLayer(layer, layer_filter)]

\* run_plugins_v2(layer, layer_filter, cb): the plugins of the filter, then
\* the catch-all plugins.  args and pinfo are what the closure cb gives to
\* the callback of each plugin.
PluginsTask(layer, layer_filter, cb, args, pinfo) ==
    [t |-> "run_plugins_v2", layer |-> layer, filter |-> layer_filter,
     cb |-> cb, args |-> args, pinfo |-> pinfo,
     todo |-> GetPluginsForLayer(layer, layer_filter)
                \o GetPluginsForLayer(layer, 0)]

\* run_plugins_v2_physical, _link, _network and _transport
RunPluginsV2Physical(data) ==
    PluginsTask(1, 0, "handle_layer_physical", <<data>>, NoPinfo)
RunPluginsV2Link(linktype, l2_payload) ==
    PluginsTask(2, linktype, "handle_layer_link", <<linktype, l2_payload>>,
                NoPinfo)
RunPluginsV2Network(l3_payload, three_tuple, l4_proto) ==
    PluginsTask(3, three_tuple.proto, "handle_layer_network",
                <<l3_payload, three_tuple, l4_proto>>, NoPinfo)
RunPluginsV2Transport(pinfo) ==
    PluginsTask(4, pinfo.l4_type, "handle_layer_transport", <<>>, pinfo)

\* What a task does: Ok or Err, the tasks it leaves, the flow table, the
\* callbacks it ran itself, the flow ids it took, what it logged with warn!.
Done(fm) == [res |-> "Ok", push |-> <<>>, fm |-> fm, calls |-> <<>>,
             fresh |-> <<>>, warn |-> <<>>]
Failed(fm) == [res |-> "Err", push |-> <<>>, fm |-> fm, calls |-> <<>>,
               fresh |-> <<>>, warn |-> <<>>]
Then(fm, tasks) == [res |-> "Ok", push |-> tasks, fm |-> fm, calls |-> <<>>,
                    fresh |-> <<>>, warn |-> <<>>]
\* The handler panics: the process ends.
Panicked(fm) == [res |-> "panic", push |-> <<>>, fm |-> fm, calls |-> <<>>,
                 fresh |-> <<>>, warn |-> <<>>]

\* warn!(w) before the rest r of a handler
Warn(w, r) == [r EXCEPT !.warn = <<w>> \o @]

\* handle_l2, up to the physical plugins: the slice is cut to the caplen of
\* the packet.
HandleL2(fm, data, caplen) ==
    LET datalen == Min(caplen, Len(data))
        trimmed == SliceTo(data, datalen)
    IN Then(fm, <<RunPluginsV2Physical(trimmed), EthTask(trimmed)>>)

\* handle_l2, from the Ethernet header to the link plugins; handle_l3 is
\* left for after them.  A slice too short for the header, and a frame to
\* one of the two Cisco multicast addresses, are dropped with Ok.
HandleL2Ethernet(fm, data) ==
    IF TooShort(data, "eth") THEN Done(fm)
    ELSE IF data[1] % 2 = 1
            /\ SliceTo(data, 6) \in {<<1, 0, 12, 204, 204, 204>>,
                                     <<1, 0, 12, 205, 205, 208>>}
    THEN Done(fm)
    ELSE LET ethertype == U16(data, 12)
             payload == SliceFrom(data, 14)
         IN Then(fm, <<RunPluginsV2Link(LinkLayerTypeEthernet, payload),
                       L3Task(ethertype, payload)>>)

\* handle_l3_ipv4 dropping, when do_checksums is set, the datagram whose
\* header checksum is wrong.
HandleL3Ipv4DropsBadChecksum(fm, data, ethertype, do_checksums) ==
    IF TooShort(data, "ipv4") THEN Failed(fm)
    ELSE LET orig_len == Len(data)
             ip_len == Ipv4Header(data).total_length
             d == IF ip_len < Len(data) /\ ip_len > 0
                  THEN SliceTo(data, ip_len) ELSE data
             rest(ipv4) ==
                 LET t3 == ThreeTuple(ethertype, ipv4.source,
                                      ipv4.destination)
                     l4_proto == ipv4.next_level_protocol
                 IN IF do_checksums /\ Ipv4Checksum(d) # ipv4.checksum
                    THEN Warn("IPv4: invalid checksum", Done(fm))
                    ELSE Then(fm, <<RunPluginsV2Network(d, t3, l4_proto),
                                    Ipv4DefragTask(t3, d, orig_len)>>)
         IN IF TooShort(d, "ipv4") THEN Failed(fm)
            ELSE rest(Ipv4Header(d))

\* handle_l3_ipv4, up to the network plugins: the slice is cut to the total
\* length of the header when that is shorter and not 0, and parsed again;
\* the checksum is verified and a wrong one logged.  The defragmentation
\* and handle_l3_common are left for after the plugins.
HandleL3Ipv4(fm, data, ethertype, do_checksums) ==
    IF TooShort(data, "ipv4") THEN Failed(fm)
    ELSE LET orig_len == Len(data)
             ip_len == Ipv4Header(data).total_length
             d == IF ip_len < Len(data) /\ ip_len > 0
                  THEN SliceTo(data, ip_len) ELSE data
             rest(ipv4) ==
                 LET t3 == ThreeTuple(ethertype, ipv4.source,
                                      ipv4.destination)
                     l4_proto == ipv4.next_level_protocol
                     plugins ==
                         Then(fm, <<RunPluginsV2Network(d, t3, l4_proto),
                                    Ipv4DefragTask(t3, d, orig_len)>>)
                 IN IF do_checksums /\ Ipv4Checksum(d) # ipv4.checksum
                    THEN Warn("IPv4: invalid checksum", plugins)
                    ELSE plugins
         IN IF TooShort(d, "ipv4") THEN Failed(fm)
            ELSE rest(Ipv4Header(d))

\* is_ipv6_opt
IsIpv6Opt(opt) ==
    opt \in {IpNextHeaderProtocolsHopopt, IpNextHeaderProtocolsIpv6Opts,
             IpNextHeaderProtocolsIpv6Route, IpNextHeaderProtocolsIpv6Frag,
             IpNextHeaderProtocolsEsp, IpNextHeaderProtocolsAh,
             IpNextHeaderProtocolsMobilityHeader}

\* The while loop of handle_l3_ipv6 over the extension headers, from the
\* header of protocol l4_proto at the start of payload on: how it ends
\* ("Ok" when a protocol that is no extension is reached, "Err" when a
\* header has less than 2 bytes, "multiple" at a second fragment header,
\* "panic" when a header says it is longer than the slice), and the
\* protocol, the payload and the fragment header it ends with.
RECURSIVE SkipExtensions(_, _, _)
SkipExtensions(l4_proto, payload, frag_ext) ==
    LET end(res) == [res |-> res, l4_proto |-> l4_proto,
                     payload |-> payload, frag_ext |-> frag_ext]
    IN IF ~IsIpv6Opt(l4_proto) THEN end("Ok")
       ELSE IF TooShort(payload, "extension") THEN end("Err")
       ELSE IF l4_proto = IpNextHeaderProtocolsIpv6Frag /\ frag_ext # <<>>
       THEN end("multiple")
       ELSE LET next_header == payload[1]
                offset == payload[2] * 8 + 8
            IN IF offset > Len(payload) THEN end("panic")
               ELSE SkipExtensions(next_header, SliceFrom(payload, offset),
                                   IF l4_proto = IpNextHeaderProtocolsIpv6Frag
                                   THEN FragmentPacketNew(payload)
                                   ELSE frag_ext)

\* handle_l3_ipv6, up to the network plugins: the payload is what the
\* payload length says, or everything after the header when that is empty
\* (jumbogram); the extension headers are skipped; the plugins are given
\* what follows them.
HandleL3Ipv6(fm, data, ethertype) ==
    IF TooShort(data, "ipv6") THEN Failed(fm)
    ELSE LET ipv6 == Ipv6Header(data)
             payload == IF Ipv6Payload(data) = EmptyData
                        THEN SliceFrom(data, 40) ELSE Ipv6Payload(data)
             t3 == ThreeTuple(ethertype, ipv6.source, ipv6.destination)
             after(walk) ==
                 CASE walk.res = "Err" -> Failed(fm)
                   [] walk.res = "multiple" ->
                         Warn("multiple IPv6Frag extensions", Done(fm))
                   [] walk.res = "panic" -> Panicked(fm)
                   [] OTHER ->
                         Then(fm, <<RunPluginsV2Network(walk.payload, t3,
                                                        walk.l4_proto),
                                    Ipv6RestTask(t3, walk.l4_proto,
                                                 walk.frag_ext,
                                                 walk.payload)>>)
         IN after(SkipExtensions(ipv6.next_header, payload, <<>>))

\* handle_l3_vlan_801q
HandleL3Vlan801q(fm, data) ==
    IF TooShort(data, "vlan") THEN Failed(fm)
    ELSE Then(fm, <<L3Task(U16(data, 2), SliceFrom(data, 4))>>)

\* handle_l3_erspan
HandleL3Erspan(fm, data) ==
    IF TooShort(data, "erspan") THEN Failed(fm)
    ELSE Then(fm, <<L2Task(SliceFrom(data, CrateHeaderSize("erspan")))>>)

\* handle_l3_ppp: the EtherType it was called with goes on to the IP handler.
HandleL3Ppp(fm, data, ethertype, do_checksums) ==
    IF TooShort(data, "ppp") THEN Failed(fm)
    ELSE LET proto == U16(data, 0)
             payload == SliceFrom(data, CrateHeaderSize("ppp"))
         IN CASE proto = PppProtocolTypesIpv4 ->
                    HandleL3Ipv4(fm, payload, ethertype, do_checksums)
              [] proto = PppProtocolTypesIpv6 ->
                    HandleL3Ipv6(fm, payload, ethertype)
              [] OTHER -> Warn("Unsupported PPP protocol", Done(fm))

\* handle_l3_pppoesession
HandleL3PppoeSession(fm, data, ethertype, do_checksums) ==
    IF TooShort(data, "pppoesession") THEN Failed(fm)
    ELSE HandleL3Ppp(fm, SliceFrom(data, CrateHeaderSize("pppoesession")),
                     ethertype, do_checksums)

\* handle_l3
HandleL3(fm, data, ethertype, do_checksums) ==
    IF data = EmptyData THEN Done(fm)
    ELSE CASE ethertype = EtherTypesIpv4 ->
                 HandleL3Ipv4(fm, data, ethertype, do_checksums)
           [] ethertype = EtherTypesIpv6 -> HandleL3Ipv6(fm, data, ethertype)
           [] ethertype = EtherTypesVlan -> HandleL3Vlan801q(fm, data)
           [] ethertype = EtherTypesArp -> Done(fm)
           [] ethertype = EtherTypePpp ->
                 HandleL3Ppp(fm, data, ethertype, do_checksums)
           [] ethertype = EtherTypeErspan -> HandleL3Erspan(fm, data)
           [] ethertype = EtherTypesPppoeSession ->
                 HandleL3PppoeSession(fm, data, ethertype, do_checksums)
           [] OTHER -> Warn("Unsupported ethertype", Done(fm))

\* to_server that is true for every packet
ToServerAlways(flow, five_tuple) == TRUE

\* to_server: the packet's 5-tuple is the one stored in its flow.
ToServer(flow, five_tuple) == flow.five_tuple = five_tuple

\* handle_l4_common, up to the transport plugins: the 5-tuple, the flows
\* section, the PacketInfo.  Nothing is left for after the plugins.
HandleL4Common(fm, l4_data, l3_info, src_port, dst_port, l4_payload, now, pcap_index) ==
    LET five_tuple == FromThreeTuple(l3_info.three_tuple, src_port, dst_port,
                                     l3_info.l4_proto)
        pinfo(flow) == [five_tuple |-> five_tuple,
                        to_server |-> ToServer(flow, five_tuple),
                        l3_type |-> l3_info.three_tuple.proto,
                        l4_data |-> l4_data,
                        l4_type |-> five_tuple.proto,
                        l4_payload |-> l4_payload,
                        flow |-> {flow}, pcap_index |-> pcap_index]
        after(fs) ==
            [res |-> "Ok",
             push |-> <<RunPluginsV2Transport(pinfo(fs.fm.flows[fs.flow_id]))>>,
             fm |-> fs.fm,
             calls |-> IF fs.created = <<>> THEN <<>>
                       ELSE GenEventNewFlow(fs.created[1]),
             fresh |-> fs.fresh,
             warn |-> <<>>]
    IN after(FlowsSection(fm, five_tuple, now))

\* handle_l4_tcp: every TCP packet goes to handle_l4_common with the
\* payload of the packet itself.
HandleL4Tcp(fm, data, l3_info, now, pcap_index) ==
    IF TooShort(data, "tcp") THEN Failed(fm)
    ELSE HandleL4Common(fm, data, l3_info, U16(data, 0), U16(data, 2),
                        Some(TcpPayload(data)), now, pcap_index)

\* handle_l4_vxlan
HandleL4Vxlan(fm, l4_data) ==
    IF TooShort(l4_data, "vxlan") THEN Failed(fm)
    ELSE Then(fm, <<L2Task(SliceFrom(l4_data, CrateHeaderSize("vxlan")))>>)

\* handle_l4_udp without the test of the VXLAN port
HandleL4UdpNoVxlan(fm, data, l3_info, now, pcap_index) ==
    IF TooShort(data, "udp") THEN Failed(fm)
    ELSE HandleL4Common(fm, data, l3_info, U16(data, 0), U16(data, 2),
                        Some(SliceFrom(data, 8)), now, pcap_index)

\* handle_l4_udp
HandleL4Udp(fm, data, l3_info, now, pcap_index) ==
    IF TooShort(data, "udp") THEN Failed(fm)
    ELSE LET src_port == U16(data, 0)
             dst_port == U16(data, 2)
             payload == SliceFrom(data, 8)
         IN IF src_port = VxlanPort \/ dst_port = VxlanPort
            THEN HandleL4Vxlan(fm, payload)
            ELSE HandleL4Common(fm, data, l3_info, src_port, dst_port,
                                Some(payload), now, pcap_index)

\* handle_l4_icmp: the type and the code stand for the ports.
HandleL4Icmp(fm, data, l3_info, now, pcap_index, do_checksums) ==
    IF TooShort(data, "icmp") THEN Failed(fm)
    ELSE LET common == HandleL4Common(fm, data, l3_info, data[1], data[2],
                                      Some(SliceFrom(data, 4)), now,
                                      pcap_index)
         IN IF do_checksums /\ IcmpChecksum(data) # U16(data, 2)
            THEN Warn("ICMP: invalid checksum", common)
            ELSE common

\* handle_l4_icmpv6: both ports are 0; over IPv6 addresses the checksum is
\* verified whatever do_checksums is.
HandleL4Icmpv6(fm, data, l3_info, now, pcap_index) ==
    IF TooShort(data, "icmpv6") THEN Failed(fm)
    ELSE LET src == l3_info.three_tuple.src
             dst == l3_info.three_tuple.dst
             common == HandleL4Common(fm, data, l3_info, 0, 0,
                                      Some(SliceFrom(data, 4)), now,
                                      pcap_index)
         IN IF IsV6(src) /\ IsV6(dst)
               /\ Icmpv6Checksum(data, src, dst) # U16(data, 2)
            THEN Warn("ICMPv6: invalid checksum", common)
            ELSE common

\* handle_l4_generic
HandleL4Generic(fm, data, l3_info, now, pcap_index) ==
    HandleL4Common(fm, data, l3_info, 0, 0, NoPayload, now, pcap_index)

\* handle_l4_gre: handle_l3 is left to run with the protocol type of the
\* GRE header as EtherType, on the payload, or, when the protocol type is
\* 0x880b (PPTP), on the bytes from offset 8 on, 4 more with a sequence
\* number and 4 more with an acknowledgment number; both the debug_assert!
\* and the slice panic when the packet is shorter.  gre.payload() panics
\* for a header with routing.
HandleL4Gre(fm, data) ==
    IF TooShort(data, "gre") THEN Failed(fm)
    ELSE LET gre == GreHeader(data)
             offset == 8 + (IF gre.sequence_present # 0 THEN 4 ELSE 0)
                         + (IF data[2] \div 128 # 0 THEN 4 ELSE 0)
         IN IF gre.protocol_type = EtherTypePpp
            THEN IF offset > Len(data) THEN Panicked(fm)
                 ELSE Then(fm, <<L3Task(gre.protocol_type,
                                        SliceFrom(data, offset))>>)
            ELSE IF gre.routing_present # 0 THEN Panicked(fm)
            ELSE Then(fm, <<L3Task(gre.protocol_type, GrePayload(data))>>)

\* handle_l3_common
HandleL3Common(fm, data, l3_info, now, pcap_index, do_checksums) ==
    CASE l3_info.l4_proto = IpNextHeaderProtocolsTcp ->
            HandleL4Tcp(fm, data, l3_info, now, pcap_index)
      [] l3_info.l4_proto = IpNextHeaderProtocolsUdp ->
            HandleL4Udp(fm, data, l3_info, now, pcap_index)
      [] l3_info.l4_proto = IpNextHeaderProtocolsIcmp ->
            HandleL4Icmp(fm, data, l3_info, now, pcap_index, do_checksums)
      [] l3_info.l4_proto = IpNextHeaderProtocolsIcmpv6 ->
            HandleL4Icmpv6(fm, data, l3_info, now, pcap_index)
      [] l3_info.l4_proto = IpNextHeaderProtocolsEsp ->
            HandleL4Generic(fm, data, l3_info, now, pcap_index)
      [] l3_info.l4_proto = IpNextHeaderProtocolsGre -> HandleL4Gre(fm, data)
      [] l3_info.l4_proto = IpNextHeaderProtocolsIpv4 ->
            HandleL3(fm, data, EtherTypesIpv4, do_checksums)
      [] l3_info.l4_proto = IpNextHeaderProtocolsIpv6 ->
            HandleL3(fm, data, EtherTypesIpv6, do_checksums)
      [] OTHER -> Warn("Unsupported L4 proto",
                       HandleL4Generic(fm, data, l3_info, now, pcap_index))

(***************************************************************************)
(* The defragmentation engine (DefragEngine), one for IPv4 and one for     *)
(* IPv6.  update is given the identification, the offset in bytes, the     *)
(* more-fragments flag and the payload of the fragment, and nothing else   *)
(* of the packet: the buffers of an engine are told apart by the           *)
(* identification alone.                                                   *)
(***************************************************************************)
\* DefragEngine::new: no buffer.
DefragEngineNew == <<>>

\* The fragments of a buffer from the offset at on, one after the other.
RECURSIVE Assemble(_, _)
Assemble(buf, at) ==
    IF \E f \in buf : f.offset = at /\ f.data # <<>>
    THEN LET f == CHOOSE g \in buf : g.offset = at /\ g.data # <<>>
         IN f.data \o Assemble(buf, at + Len(f.data))
    ELSE <<>>

\* The buffer holds the whole datagram: the fragment of the highest offset
\* is the last one and the fragments tile the bytes before its end.
Tiles(buf) ==
    LET highest == CHOOSE f \in buf : \A g \in buf : g.offset <= f.offset
    IN /\ ~highest.more_fragments
       /\ Len(Assemble(buf, 0)) = highest.offset + Len(highest.data)

\* Two fragments that share a byte.
Overlap(f, g) ==
    /\ f.offset < g.offset + Len(g.data)
    /\ g.offset < f.offset + Len(f.data)

DropBuffer(engine, id) ==
    [i \in DOMAIN engine \ {id} |-> engine[i]]

\* update(id, frag_offset, more_fragments, payload): NoFrag for a datagram
\* that is no fragment; otherwise the fragment joins the buffer of its
\* identification, which is dropped with Error on an overlap and given
\* back whole with Complete once nothing is missing.
DefragUpdate(engine, id, frag_offset, more_fragments, payload) ==
    IF frag_offset = 0 /\ ~more_fragments
    THEN [engine |-> engine, kind |-> "NoFrag", data |-> payload]
    ELSE LET old == IF id \in DOMAIN engine THEN engine[id] ELSE {}
             new == [offset |-> frag_offset,
                     more_fragments |-> more_fragments,
                     data |-> payload]
             buf == old \cup {new}
         IN IF \E g \in old : Overlap(new, g)
            THEN [engine |-> DropBuffer(engine, id), kind |-> "Error",
                  data |-> EmptyData]
            ELSE IF Tiles(buf)
            THEN [engine |-> DropBuffer(engine, id), kind |-> "Complete",
                  data |-> Assemble(buf, 0)]
            ELSE [engine |-> [i \in DOMAIN engine \cup {id} |->
                                IF i = id THEN buf ELSE engine[i]],
                  kind |-> "Incomplete", data |-> EmptyData]

\* What a handler that calls update leaves: the result h of the handler
\* and the engine after the call.
WithEngine(h, engine) == [h |-> h, engine |-> engine]

\* What handle_l3_ipv4 gives to update: the identification as u32, the
\* offset in bytes, the MoreFragments flag, and the payload, which is
\* everything from the header length on when the total length is 0 (TSO).
Ipv4Fragment(data) ==
    LET ipv4 == Ipv4Header(data)
    IN [id |-> ipv4.identification,
        frag_offset |-> ipv4.fragment_offset * 8,
        more_fragments |-> (ipv4.flags % 2) # 0,
        payload |-> IF ipv4.total_length = 0
                    THEN SliceFrom(data, ipv4.header_length * 4)
                    ELSE Ipv4Payload(data)]

\* handle_l3_ipv4 after the network plugins, going on to handle_l3_common
\* with the fragment it was given when update returns Incomplete.
HandleL3Ipv4DefragEmitsIncomplete(fm, engine, t3, data) ==
    LET ipv4 == Ipv4Header(data)
        l3_info == L3Info(t3, ipv4.next_level_protocol)
        common(d) == Then(fm, <<L3CommonTask(l3_info, d)>>)
        after(frag, u) ==
            CASE u.kind = "NoFrag" -> WithEngine(common(u.data), u.engine)
              [] u.kind = "Complete" ->
                   WithEngine(Warn("IPv4 defrag done", common(u.data)),
                              u.engine)
              [] u.kind = "Incomplete" ->
                   WithEngine(common(frag.payload), u.engine)
              [] u.kind = "Error" ->
                   WithEngine(Warn("IPv4 defragmentation error", Done(fm)),
                              u.engine)
        update(frag) ==
            after(frag, DefragUpdate(engine, frag.id, frag.frag_offset,
                                     frag.more_fragments, frag.payload))
        tso(r) == IF ipv4.total_length = 0
                  THEN WithEngine(Warn("IPv4: packet reported length is 0",
                                       r.h), r.engine)
                  ELSE r
    IN IF ipv4.total_length = 0 /\ ipv4.header_length * 4 > Len(data)
       THEN tso(WithEngine(Warn("IPv4: get_header_length is invalid",
                                Done(fm)), engine))
       ELSE tso(update(Ipv4Fragment(data)))

\* handle_l3_ipv4 after the network plugins: the payload (from the header
\* length on when the total length is 0, TSO), the defragmentation, then
\* handle_l3_common on the datagram, or nothing when it is not whole.
HandleL3Ipv4Defrag(fm, engine, t3, data) ==
    LET ipv4 == Ipv4Header(data)
        l3_info == L3Info(t3, ipv4.next_level_protocol)
        common(d) == Then(fm, <<L3CommonTask(l3_info, d)>>)
        after(u) ==
            CASE u.kind = "NoFrag" -> WithEngine(common(u.data), u.engine)
              [] u.kind = "Complete" ->
                   WithEngine(Warn("IPv4 defrag done", common(u.data)),
                              u.engine)
              [] u.kind = "Incomplete" -> WithEngine(Done(fm), u.engine)
              [] u.kind = "Error" ->
                   WithEngine(Warn("IPv4 defragmentation error", Done(fm)),
                              u.engine)
        update(frag) ==
            after(DefragUpdate(engine, frag.id, frag.frag_offset,
                               frag.more_fragments, frag.payload))
        tso(r) == IF ipv4.total_length = 0
                  THEN WithEngine(Warn("IPv4: packet reported length is 0",
                                       r.h), r.engine)
                  ELSE r
    IN IF ipv4.total_length = 0 /\ ipv4.header_length * 4 > Len(data)
       THEN tso(WithEngine(Warn("IPv4: get_header_length is invalid",
                                Done(fm)), engine))
       ELSE tso(update(Ipv4Fragment(data)))

\* handle_l4_ipv6frag, up to the match on l4_proto: the offset of the
\* fragment header is given to update as it is read.
HandleL4Ipv6Frag(fm, engine, frag_info, data, l3_info) ==
    LET l4(d) == Then(fm, <<Ipv6FragL4Task(l3_info, d)>>)
        after(u) ==
            CASE u.kind = "NoFrag" -> WithEngine(l4(u.data), u.engine)
              [] u.kind = "Complete" ->
                   WithEngine(Warn("IPv6Fragment defrag done", l4(u.data)),
                              u.engine)
              [] u.kind = "Incomplete" -> WithEngine(Done(fm), u.engine)
              [] u.kind = "Error" ->
                   WithEngine(Warn("IPv6Fragment defragmentation error",
                                   Done(fm)), u.engine)
    IN after(DefragUpdate(engine, frag_info.id, frag_info.fragment_offset,
                          ~frag_info.last_fragment, data))

\* handle_l4_ipv6frag, the match on l4_proto
HandleL4Ipv6FragL4(fm, data, l3_info, now, pcap_index, do_checksums) ==
    CASE l3_info.l4_proto = IpNextHeaderProtocolsTcp ->
            HandleL4Tcp(fm, data, l3_info, now, pcap_index)
      [] l3_info.l4_proto = IpNextHeaderProtocolsUdp ->
            HandleL4Udp(fm, data, l3_info, now, pcap_index)
      [] l3_info.l4_proto = IpNextHeaderProtocolsIcmp ->
            HandleL4Icmp(fm, data, l3_info, now, pcap_index, do_checksums)
      [] OTHER -> Warn("IPv6Fragment: Unsupported L4 proto",
                       HandleL4Generic(fm, data, l3_info, now, pcap_index))

\* handle_l3_ipv6 after the network plugins
HandleL3Ipv6Rest(fm, engine, t3, l4_proto, frag_ext, payload) ==
    LET l3_info == L3Info(t3, l4_proto)
    IN IF l4_proto = IpNextHeaderProtocolsIpv6NoNxt
       THEN WithEngine(IF payload # EmptyData
                       THEN Warn("No next header, but data is present",
                                 Done(fm))
                       ELSE Done(fm), engine)
       ELSE IF frag_ext # <<>>
       THEN HandleL4Ipv6Frag(fm, engine, frag_ext[1], payload, l3_info)
       ELSE WithEngine(Then(fm, <<L3CommonTask(l3_info, payload)>>), engine)

\* debug_assert!(d.len() < orig_len) of handle_l3_ipv4 does not hold for the
\* task: the slice NoFrag returns is as long as the slice the handler was
\* given.  The payload of a datagram with a total length is shorter than
\* the datagram, so that only the TSO branch can get there.
DebugAssertFails(analyzer, task) ==
    /\ task.t = "handle_l3_ipv4_defrag"
    /\ ~(Ipv4Header(task.data).total_length = 0
         /\ Ipv4Header(task.data).header_length * 4 > Len(task.data))
    /\ LET frag == Ipv4Fragment(task.data)
           u == DefragUpdate(analyzer.ipv4_defrag, frag.id, frag.frag_offset,
                             frag.more_fragments, frag.payload)
       IN u.kind = "NoFrag" /\ ~(Len(u.data) < task.orig_len)

\* The code of the task on top of the stack, run on the analyzer for the
\* packet pkt: what the handler does and the two engines after it.  A
\* plugin loop with no plugin left returns Ok.
RunTask(analyzer, task, pkt) ==
    LET fm == analyzer.flows
        cks == analyzer.do_checksums
        now == pkt.ts
        pcap_index == pkt.pcap_index
        keep(h) == [h |-> h, ipv4_defrag |-> analyzer.ipv4_defrag,
                    ipv6_defrag |-> analyzer.ipv6_defrag]
        keep4(r) == [h |-> r.h, ipv4_defrag |-> r.engine,
                     ipv6_defrag |-> analyzer.ipv6_defrag]
        keep6(r) == [h |-> r.h, ipv4_defrag |-> analyzer.ipv4_defrag,
                     ipv6_defrag |-> r.engine]
    IN CASE task.t = "handle_l2" ->
               keep(HandleL2(fm, task.data, pkt.caplen))
         [] task.t = "ethernet" -> keep(HandleL2Ethernet(fm, task.data))
         [] task.t = "handle_l3" ->
               keep(HandleL3(fm, task.data, task.ethertype, cks))
         [] task.t = "handle_l3_ipv4_defrag" ->
               keep4(HandleL3Ipv4Defrag(fm, analyzer.ipv4_defrag, task.t3,
                                        task.data))
         [] task.t = "handle_l3_ipv6_rest" ->
               keep6(HandleL3Ipv6Rest(fm, analyzer.ipv6_defrag, task.t3,
                                      task.l4_proto, task.frag_ext,
                                      task.data))
         [] task.t = "handle_l4_ipv6frag_l4" ->
               keep(HandleL4Ipv6FragL4(fm, task.data, task.l3_info, now,
                                       pcap_index, cks))
         [] task.t = "handle_l3_common" ->
               keep(HandleL3Common(fm, task.data, task.l3_info, now,
                                   pcap_index, cks))
         [] task.t = "handle_l4_common" ->
               keep(HandleL4Common(fm, task.l4_data, task.l3_info,
                                   task.src_port, task.dst_port,
                                   task.l4_payload, now, pcap_index))
         [] task.t = "run_plugins_v2" -> keep(Done(fm))

\* The loop of run_plugins_v2 leaving at the first Error result.
LoopAfterErrorBreaks(loop, r) ==
    IF r.kind = "Error" THEN [loop EXCEPT !.todo = <<>>]
    ELSE [loop EXCEPT !.todo = Tail(loop.todo)]

\* The loop of run_plugins_v2 after the callback of its next plugin has
\* returned r: whatever r is, it goes on with the plugin after it.
LoopAfter(loop, r) == [loop EXCEPT !.todo = Tail(loop.todo)]

\* What run_plugins_v2 does with the result r of a callback: the handler
\* it calls before it goes on with the next plugin, none for None and Error.
Reinjection(r) ==
    CASE r.kind \in {"None", "Error"} -> <<>>
      [] r.kind = "L2" -> <<L3Task(r.ethertype, r.payload)>>
      [] r.kind = "L3" -> <<L3CommonTask(r.l3_info, r.payload)>>
      [] r.kind = "L4" ->
            <<L4CommonTask(EmptyData, L3InfoDefault, r.five_tuple.src_port,
                           r.five_tuple.dst_port, Some(r.payload))>>


(***************************************************************************)
(* State of the analyzer, and what is recorded of its run.                 *)
(***************************************************************************)
VARIABLES
    flows,    \* Analyzer.flows, the FlowMap
    stack,    \* the handlers in progress for the packet, innermost first
    packet,   \* the Packet being handled, with the pcap_index of its context
    status,   \* "idle", "running", or what handle_packet returned
    calls,    \* the callbacks run by the current operation, in order
    op,       \* the last operation started: handle_packet or teardown
    nframes,  \* packets given to handle_packet so far
    reinj,    \* re-injection results returned for the current packet
    created,  \* the ids insert_flow has taken, oldest first, and whether
              \* the flow is still in the table
    do_checksums,  \* Analyzer.do_checksums
    ipv4_defrag,   \* Analyzer.ipv4_defrag, the buffers of the engine
    ipv6_defrag,   \* Analyzer.ipv6_defrag
    warnings  \* what the handlers logged with warn! for the current packet

avars == <<flows, stack, packet, status, calls, op, nframes, reinj, created,
           do_checksums, ipv4_defrag, ipv6_defrag, warnings>>

(***************************************************************************)
(* The packets and the plugin results the analyzer is driven with.         *)
(***************************************************************************)
MaxFrames == 3
MaxReinject == 1

Ports == [client |-> 1000, server |-> 53]
ClientPort == Ports.client
ServerPort == Ports.server

\* A TCP segment or a UDP datagram between the two hosts, either way.
Transport(proto, src_port, dst_port) ==
    IF proto = IpNextHeaderProtocolsTcp THEN TcpPacket(src_port, dst_port)
    ELSE UdpPacket(src_port, dst_port, RawData)
Datagram(to_server, proto) ==
    IF to_server
    THEN Ipv4Packet(ClientAddr, ServerAddr, proto,
                    Transport(proto, ClientPort, ServerPort))
    ELSE Ipv4Packet(ServerAddr, ClientAddr, proto,
                    Transport(proto, ServerPort, ClientPort))
Datagrams ==
    {Datagram(d, proto) :
        d \in BOOLEAN,
        proto \in {IpNextHeaderProtocolsTcp, IpNextHeaderProtocolsUdp}}

\* A UDP datagram from the client to the server, in an Ethernet frame, and
\* the same frame carried over VXLAN from the client to the server.
InnerFrame ==
    EthernetPacket("unicast", EtherTypesIpv4,
                   Datagram(TRUE, IpNextHeaderProtocolsUdp))
VxlanFrame ==
    EthernetPacket("unicast", EtherTypesIpv4,
                   Ipv4Packet(ClientAddr, ServerAddr,
                              IpNextHeaderProtocolsUdp,
                              UdpPacket(ClientPort, VxlanPort,
                                        VxlanPacket(InnerFrame))))

\* PacketData
PacketDataL2(data) == [variant |-> "L2", ethertype |-> 0, data |-> data]
PacketDataL3(ethertype, data) ==
    [variant |-> "L3", ethertype |-> ethertype, data |-> data]
PacketDataL4 == [variant |-> "L4", ethertype |-> 0, data |-> RawData]
PacketDataUnsupported ==
    [variant |-> "Unsupported", ethertype |-> 0, data |-> RawData]

PacketDatas ==
    {PacketDataL2(EthernetPacket("unicast", EtherTypesIpv4, d)) :
        d \in Datagrams}
    \cup {PacketDataL3(EtherTypesIpv4, Datagram(TRUE, IpNextHeaderProtocolsUdp)),
          PacketDataL3(EtherTypesIpv4, RawData),
          PacketDataL3(EtherTypesArp, RawData),
          PacketDataL3(EtherTypesVlan,
                       VlanPacket(EtherTypesIpv4,
                                  Datagram(FALSE, IpNextHeaderProtocolsUdp))),
          PacketDataL2(RawData),
          PacketDataL2(EthernetPacket("cisco_cdp", 0, RawData)),
          PacketDataL2(VxlanFrame),
          PacketDataL4,
          PacketDataUnsupported}

Timestamps == {10}

NoPacket == [data |-> PacketDataUnsupported, caplen |-> 0, ts |-> 0,
             pcap_index |-> 0]

\* PluginResult: None, Error, and one re-injection of each kind.
PluginResults ==
    LET t3 == ThreeTuple(EtherTypesIpv4, ClientAddr, ServerAddr)
        none == [kind |-> "None", ethertype |-> 0, l3_info |-> L3InfoDefault,
                 five_tuple |-> NoPinfo.five_tuple, payload |-> EmptyData]
    IN {none,
        [none EXCEPT !.kind = "Error"],
        [none EXCEPT !.kind = "L2", !.ethertype = EtherTypesIpv4,
                     !.payload = Datagram(TRUE, IpNextHeaderProtocolsUdp)],
        [none EXCEPT !.kind = "L3",
                     !.l3_info = L3Info(t3, IpNextHeaderProtocolsUdp),
                     !.payload = UdpPacket(ClientPort, ServerPort, RawData)],
        [none EXCEPT !.kind = "L4",
                     !.five_tuple = FromThreeTuple(t3, ClientPort, ServerPort,
                                                   IpNextHeaderProtocolsUdp),
                     !.payload = RawData]}

\* Analyzer::new with do_checksums read from the configuration
AnalyzerNew(cks) ==
    /\ flows = FlowMapDefault
    /\ stack = <<>>
    /\ packet = NoPacket
    /\ status = "idle"
    /\ calls = <<>>
    /\ op = "new"
    /\ nframes = 0
    /\ reinj = 0
    /\ created = <<>>
    /\ do_checksums = cks
    /\ ipv4_defrag = DefragEngineNew
    /\ ipv6_defrag = DefragEngineNew
    /\ warnings = <<>>

\* Analyzer::new with the default configuration
InitAnalyzer ==
    /\ flows = FlowMapDefault
    /\ stack = <<>>
    /\ packet = NoPacket
    /\ status = "idle"
    /\ calls = <<>>
    /\ op = "new"
    /\ nframes = 0
    /\ reinj = 0
    /\ created = <<>>
    /\ do_checksums = TRUE
    /\ ipv4_defrag = DefragEngineNew
    /\ ipv6_defrag = DefragEngineNew
    /\ warnings = <<>>

(***************************************************************************)
(* State of the reassembler, and what is recorded of its run.              *)
(***************************************************************************)
VARIABLES
    m,        \* TcpStreamReassembly.m : flow id -> TcpStream
    result,   \* what the last call of update returned ("none" before any)
    npkts,    \* packets handed to update so far; the next pcap_index - 1
    dlog,     \* per side, the segments run_plugins_transport was given
    replays,  \* pcap_index of the packets that repeated delivered data
    hs,       \* how far the packets so far follow the three-way handshake
    last,     \* the packet of the last call of update
    sweep     \* the `now` of check_expired_connections when it was the last
              \* call, as a set; empty otherwise

tcpvars == <<m, result, npkts, dlog, replays, hs, last, sweep>>

vars == <<flows, stack, packet, status, calls, op, nframes, reinj, created,
          do_checksums, ipv4_defrag, ipv6_defrag, warnings,
          m, result, npkts, dlog, replays, hs, last, sweep>>

\* The one TCP flow the reassembler is driven with.
TcpFlow == 1

\* The side whose queued data a packet acknowledges, and the side it is from.
AckedSide(p) == IF p.to_server THEN "server" ELSE "client"
SentSide(p) == IF p.to_server THEN "client" ELSE "server"

StreamOf(f, p) == IF f \in DOMAIN m THEN m[f] ELSE NewStream(p.ts)

\* The packet gives SentSide(p) a new isn (a SYN, or the answer to one).
StartsSide(s, p, r) ==
    /\ Origin(s, p.to_server).status \in {"Closed", "Listen"}
    /\ r.res = "Ok"
    /\ Origin(r.stream, p.to_server).status \in {"SynSent", "SynRcv"}

\* The packet carries again, byte for byte, data of its side that was
\* already acknowledged and handed to the plugins.
IsReplay(s, p) ==
    LET o == Origin(s, p.to_server)
        rel_seq == Sub32(p.seq, o.isn)
        end == Add32(rel_seq, W(Len(p.payload)))
    IN /\ o.status = "Established"
       /\ p.payload # <<>>
       /\ \E i \in 1..Len(dlog[SentSide(p)]) :
             /\ dlog[SentSide(p)][i].rel_seq = rel_seq
             /\ dlog[SentSide(p)][i].data = p.payload
       /\ ~Lt32(o.last_rel_ack, end)
       /\ ~Lt32(o.next_rel_seq, end)

\* The three-way handshake as a sequence of packets: a SYN of the client
\* (seq = c), a SYN+ACK of the server (seq = s, ack = c+1), an ACK of the
\* client (ack = s+1), on a new stream.
HsNext(f, p) ==
    CASE f \notin DOMAIN m /\ p.to_server /\ p.flags = {"SYN"} ->
            [phase |-> "syn", c |-> p.seq, s |-> W(0)]
      [] f \in DOMAIN m /\ hs.phase = "syn" /\ ~p.to_server
           /\ p.flags = {"SYN", "ACK"} /\ p.ack = Add32(hs.c, W(1)) ->
            [phase |-> "synack", c |-> hs.c, s |-> p.seq]
      [] f \in DOMAIN m /\ hs.phase = "synack" /\ p.to_server
           /\ p.flags = {"ACK"} /\ p.ack = Add32(hs.s, W(1)) ->
            [phase |-> "done", c |-> hs.c, s |-> hs.s]
      [] OTHER -> [phase |-> "off", c |-> W(0), s |-> W(0)]

\* TcpStreamReassembly::update(flow, tcp, to_server, pinfo, registry) for
\* the flow f and the packet p, whose pcap_index is npkts + 1.  A panic
\* ends the process: nothing runs after it.
Update(f, p) ==
    /\ result # "panic"
    /\ LET s == StreamOf(f, p)
           idx == npkts + 1
           r == UpdateStream(s, p, idx, DefaultTimeout)
           started == StartsSide(s, p, r)
       IN /\ m' = IF r.res = "panic" THEN m
                  ELSE [g \in DOMAIN m \cup {f} |->
                          IF g = f THEN r.stream ELSE m[g]]
          /\ result' = r.res
          /\ npkts' = idx
          /\ last' = p
          /\ dlog' = [side \in {"client", "server"} |->
                        IF side = SentSide(p) /\ started THEN <<>>
                        ELSE IF side = AckedSide(p) THEN dlog[side] \o r.out
                        ELSE dlog[side]]
          /\ sweep' = {}
          /\ replays' = IF p.ts - s.last_seen_ts <= DefaultTimeout
                           /\ IsReplay(s, p)
                        THEN replays \cup {idx} ELSE replays
          /\ hs' = IF p.ts - s.last_seen_ts <= DefaultTimeout
                   THEN HsNext(f, p)
                   ELSE [phase |-> "off", c |-> W(0), s |-> W(0)]
    /\ UNCHANGED avars

(***************************************************************************)
(* The packets the reassembler is driven with.                             *)
(***************************************************************************)
\* The byte a sender has at absolute sequence number q, and the payload of
\* n bytes that starts at q: a retransmission carries the same bytes.
ByteAt(q) == q[2] % 256
Payload(q, n) == [i \in 1..n |-> ByteAt(Add32(q, W(i - 1)))]

\* Initial sequence numbers: the client's is the last u32, so that isn + 1
\* wraps to 0.
ClientIsn == <<Half - 1, Half - 1>>
ServerIsn == W(9000)
IsnOf(to_server) == IF to_server THEN ClientIsn ELSE ServerIsn

\* Handshake phase: any direction, flags, sequence and acknowledgement
\* numbers among the two isn, the two expected acks and a wrong one.
MaxHsPackets == 4
HsFlags == {{"SYN"}, {"SYN", "ACK"}, {"ACK"}, {"RST"}, {"FIN", "ACK"}, {}}
HsSeqs == {ClientIsn, ServerIsn}
HsAcks == {Add32(ClientIsn, W(1)), Add32(ServerIsn, W(1)), W(7)}
HsPackets ==
    {[to_server |-> d, seq |-> q, ack |-> a, flags |-> fl,
      payload |-> Payload(q, n), ts |-> 0] :
        d \in BOOLEAN, q \in HsSeqs, a \in HsAcks, fl \in HsFlags, n \in {0, 1}}

InitReassembly ==
    /\ m = <<>>
    /\ result = "none"
    /\ npkts = 0
    /\ dlog = [side \in {"client", "server"} |-> <<>>]
    /\ replays = {}
    /\ sweep = {}
    /\ hs = [phase |-> "new", c |-> W(0), s |-> W(0)]
    /\ last = [to_server |-> TRUE, seq |-> W(0), ack |-> W(0), flags |-> {},
               payload |-> <<>>, ts |-> 0]

HandshakePacket == \E p \in HsPackets : npkts < MaxHsPackets /\ Update(TcpFlow, p)

NextHs == HandshakePacket

InitHs == InitReassembly /\ InitAnalyzer

SpecHs == InitHs /\ [][NextHs]_vars

(***************************************************************************)
(* Claims about the handshake                                              *)
(***************************************************************************)
\* C7: on a new stream, SYN(seq=c) from the client, SYN+ACK(seq=s, ack=c+1)
\* from the server and ACK(ack=s+1) from the client leave the client
\* SynSent and the server Listen after the first packet, the server SynRcv
\* after the second, and after the third both peers and the stream
\* Established with client.isn = c, server.isn = s and next_rel_seq = 1 and
\* last_rel_ack = 1 on both peers.
C7_ThreeWayHandshake ==
    hs.phase \in {"syn", "synack", "done"} =>
        LET s == m[TcpFlow] IN
        /\ result = "Ok"
        /\ s.client.isn = hs.c
        /\ s.client.next_rel_seq = W(1)
        /\ hs.phase = "syn" =>
              /\ s.client.status = "SynSent"
              /\ s.server.status = "Listen"
              /\ s.status = "SynSent"
        /\ hs.phase = "synack" =>
              /\ s.client.status = "SynSent"
              /\ s.server.status = "SynRcv"
              /\ s.status = "SynRcv"
              /\ s.server.isn = hs.s
        /\ hs.phase = "done" =>
              /\ s.client.status = "Established"
              /\ s.server.status = "Established"
              /\ s.status = "Established"
              /\ s.server.isn = hs.s
              /\ s.server.next_rel_seq = W(1)
              /\ s.client.last_rel_ack = W(1)
              /\ s.server.last_rel_ack = W(1)

\* The third packet of the handshake has been handled.
C7_Witness ==
    /\ hs.phase = "done"
    /\ npkts = 3
    /\ hs.c = ClientIsn
    /\ hs.s = ServerIsn
    /\ m[TcpFlow].status = "Established"

\* C8: update returns Ok or a TcpStreamError for every packet; it never
\* reaches the unreachable!() arm of handle_new_connection.
C8_NeverPanics == result \in {"none", "Ok"} \cup TcpStreamError

(***************************************************************************)
(* Established phase: the stream as the handshake leaves it, driven with   *)
(* data, ACK, FIN and RST packets of both directions.  Segments are Unit   *)
(* or 2*Unit bytes long and start on multiples of Unit after the isn, so   *)
(* that retransmissions, overlaps, gaps, reordering and ACKs that cover    *)
(* part of a segment all occur.                                            *)
(***************************************************************************)
Unit == 50
MaxPackets == 4

\* A packet of direction d with sequence and acknowledgement numbers q and a
\* bytes after the isn of its side and of the other side.
DataPacket(d, q, a, fl, n) ==
    [to_server |-> d, seq |-> Add32(IsnOf(d), W(q)),
     ack |-> Add32(IsnOf(~d), W(a)), flags |-> fl,
     payload |-> Payload(Add32(IsnOf(d), W(q)), n), ts |-> 0]

\* Data segments, bare ACKs, and FIN or RST packets.
Segments == {DataPacket(d, q, 1, {"ACK"}, n) :
                d \in BOOLEAN, q \in {1, 1 + Unit}, n \in {Unit, 2 * Unit}}
Acks == {DataPacket(d, 1, a, {"ACK"}, 0) :
                d \in BOOLEAN, a \in {1, 1 + Unit, 1 + 2 * Unit}}
Closes == {DataPacket(d, 1 + Unit, 1, fl, 0) :
                d \in BOOLEAN, fl \in {{"FIN", "ACK"}, {"RST"}}}
DataPackets == Segments \cup Acks \cup Closes

\* The peers after the handshake SYN(ClientIsn), SYN+ACK(ServerIsn), ACK.
EstablishedPeer(isn, ian) ==
    [isn |-> isn, ian |-> ian, next_rel_seq |-> W(1), last_rel_ack |-> W(1),
     status |-> "Established", segments |-> <<>>]
EstablishedStream ==
    [client |-> EstablishedPeer(ClientIsn, ServerIsn),
     server |-> EstablishedPeer(ServerIsn, ClientIsn),
     status |-> "Established", last_seen_ts |-> 0]

InitEstablished ==
    /\ m = [f \in {TcpFlow} |-> EstablishedStream]
    /\ result = "Ok"
    /\ npkts = 3
    /\ dlog = [side \in {"client", "server"} |-> <<>>]
    /\ replays = {}
    /\ sweep = {}
    /\ hs = [phase |-> "done", c |-> ClientIsn, s |-> ServerIsn]
    /\ last = [to_server |-> TRUE, seq |-> Add32(ClientIsn, W(1)),
               ack |-> Add32(ServerIsn, W(1)), flags |-> {"ACK"},
               payload |-> <<>>, ts |-> 0]

EstablishedPacket ==
    \E p \in DataPackets : npkts < 3 + MaxPackets /\ Update(TcpFlow, p)

NextTcp == EstablishedPacket

InitTcp == InitEstablished /\ InitAnalyzer

SpecTcp == InitTcp /\ [][NextTcp]_vars

(***************************************************************************)
(* Claims about delivery on an established stream                          *)
(***************************************************************************)
RECURSIVE Concat(_)
Concat(segs) == IF segs = <<>> THEN <<>> ELSE Head(segs).data \o Concat(Tail(segs))

\* The bytes the transport plugins were given for the data of one side.
DeliveredBytes(side) == Concat(dlog[side])

\* C1: the concatenation of the payloads delivered for one direction is a
\* prefix of the byte stream the sender originated: the k-th delivered byte
\* is the sender's byte at sequence number isn + k.
C1_InOrderDelivery ==
    \A side \in {"client", "server"} :
        \A k \in 1..Len(DeliveredBytes(side)) :
            DeliveredBytes(side)[k] = ByteAt(Add32(m[TcpFlow][side].isn, W(k)))

\* C4: a peer has one queued segment with rel_seq = 1 and 2*Unit = 100 bytes
\* and nothing delivered yet; the other side acknowledges 1 + Unit = 51.
\* Then exactly the first 50 bytes are delivered and the other 50 stay
\* queued, as one segment with the pcap_index of the original packet.
PartialAckCase(side) ==
    LET peer == m[TcpFlow][side] IN
    /\ m[TcpFlow].client.status = "Established"
    /\ m[TcpFlow].server.status = "Established"
    /\ peer.next_rel_seq = W(1)
    /\ peer.last_rel_ack = W(1)
    /\ Len(peer.segments) = 1
    /\ peer.segments[1].rel_seq = W(1)
    /\ Len(peer.segments[1].data) = 2 * Unit
    /\ peer.segments[1].flags = {"ACK"}
    /\ last' = DataPacket(side = "server", 1, 1 + Unit, {"ACK"}, 0)
    /\ npkts' = npkts + 1

C4_PartialAck ==
    [][\A side \in {"client", "server"} :
         PartialAckCase(side) =>
            LET seg == m[TcpFlow][side].segments[1]
                queue == m'[TcpFlow][side].segments
            IN /\ dlog'[side] = dlog[side] \o
                     <<[seg EXCEPT !.data = SubSeq(seg.data, 1, Unit)]>>
               /\ Len(queue) = 1
               /\ queue[1].data = SubSeq(seg.data, Unit + 1, 2 * Unit)
               /\ queue[1].pcap_index = seg.pcap_index]_vars

\* C5: send_peer_segments called with rel_ack = last_rel_ack of the peer
\* delivers nothing and leaves the peer's queue, next_rel_seq and
\* last_rel_ack as they were.  update calls it for a packet with ACK whose
\* sender is Established or closing; the acknowledged side is the other one.
CallsSendPeerSegments(s, p) ==
    /\ p.ts - s.last_seen_ts <= DefaultTimeout
    /\ Origin(s, p.to_server).status \notin {"Closed", "Listen", "SynSent", "SynRcv"}
    /\ "ACK" \in p.flags

IsDuplicateAck(s, p) ==
    /\ CallsSendPeerSegments(s, p)
    /\ Sub32(p.ack, Destination(s, p.to_server).isn)
          = Destination(s, p.to_server).last_rel_ack

C5_DuplicateAckNoOp ==
    [][(npkts' = npkts + 1 /\ IsDuplicateAck(m[TcpFlow], last') /\ "RST" \notin last'.flags)
        => /\ dlog' = dlog
           /\ Destination(m'[TcpFlow], last'.to_server)
                = Destination(m[TcpFlow], last'.to_server)]_vars

\* A duplicate ACK was handled while the acknowledged side had a queued
\* segment below the acknowledged number, which a new ACK would deliver.
C5_Witness ==
    LET s == m[TcpFlow]
        peer == Destination(s, last.to_server)
    IN /\ npkts > 3
       /\ result = "Ok"
       /\ IsDuplicateAck(s, last)
       /\ "RST" \notin last.flags
       /\ peer.segments # <<>>
       /\ Lt32(Head(peer.segments).rel_seq, peer.last_rel_ack)
       /\ ~Gt32(peer.next_rel_seq, peer.last_rel_ack)

\* C6: a data packet that repeats bytes already acknowledged and delivered
\* is never handed to the transport plugins, at the replay or later.
C6_ReplayNotDelivered ==
    \A side \in {"client", "server"} :
        \A i \in 1..Len(dlog[side]) : dlog[side][i].pcap_index \notin replays

(***************************************************************************)
(* The analyzer: handle_packet, step by step, and teardown.                *)
(***************************************************************************)
\* The Analyzer, as the handlers are given it.
Analyzer ==
    [flows |-> flows, do_checksums |-> do_checksums,
     ipv4_defrag |-> ipv4_defrag, ipv6_defrag |-> ipv6_defrag]

\* init(): pre_process of every plugin, in registration order.
PcapAnalyzerInit ==
    /\ op = "new"
    /\ stack = <<>>
    /\ calls' = [i \in 1..Len(RunPlugins("ALL")) |->
                   Call("pre_process", RunPlugins("ALL")[i], 0, <<>>,
                        NoPinfo, "None")]
    /\ op' = "init"
    /\ status' = "Ok"
    /\ UNCHANGED <<flows, stack, packet, nframes, reinj, created,
                   do_checksums, ipv4_defrag, ipv6_defrag, warnings>>
    /\ UNCHANGED tcpvars

\* handle_packet(packet, ctx), up to the handler it dispatches to, for a
\* packet of the data, the caplen and the timestamp given.  The L4 variant
\* is unimplemented!(): the process ends.  An Unsupported packet is logged
\* and refused.
HandlePacket(data, caplen, ts) ==
    /\ stack = <<>>
    /\ status # "panic"
    /\ nframes' = nframes + 1
    /\ packet' = [data |-> data, caplen |-> caplen, ts |-> ts,
                  pcap_index |-> nframes + 1]
    /\ op' = "handle_packet"
    /\ calls' = <<>>
    /\ reinj' = 0
    /\ stack' = CASE data.variant = "L2" -> <<L2Task(data.data)>>
                  [] data.variant = "L3" ->
                        <<L3Task(data.ethertype, data.data)>>
                  [] OTHER -> <<>>
    /\ status' = CASE data.variant \in {"L2", "L3"} -> "running"
                   [] data.variant = "L4" -> "panic"
                   [] OTHER -> "Err"
    /\ warnings' = IF data.variant \in {"L2", "L3", "L4"} THEN <<>>
                   ELSE <<"Unsupported data format (unknown linktype ?)">>
    /\ UNCHANGED <<flows, created, do_checksums, ipv4_defrag, ipv6_defrag>>
    /\ UNCHANGED tcpvars

\* Whether the build has debug assertions (cargo build) or not (cargo
\* build --release), where it makes a difference to the task: a
\* debug_assert! that holds is the same in both.
DebugAssertions(analyzer, task) ==
    IF DebugAssertFails(analyzer, task) THEN BOOLEAN ELSE {FALSE}

\* The handler on top of the stack runs up to its next plugin loop, or to
\* its end, in a build with or without debug assertions; a debug_assert!
\* that does not hold ends the process in the first, a panic of the
\* handler in both.  An Err is returned through every caller (`?`): the
\* packet is dropped.  handle_packet returns Ok when nothing is left to do.
HandlerStep ==
    /\ stack # <<>>
    /\ Head(stack).t = "run_plugins_v2" => Head(stack).todo = <<>>
    /\ \E run \in {RunTask(Analyzer, Head(stack), packet)},
          debug_assertions \in DebugAssertions(Analyzer, Head(stack)) :
       LET r == run.h
           rest == IF r.res \in {"Err", "panic"} THEN <<>>
                   ELSE r.push \o Tail(stack)
       IN IF debug_assertions
          THEN /\ status' = "panic"
               /\ stack' = <<>>
               /\ warnings' = warnings \o <<Head(r.warn)>>
               /\ UNCHANGED <<flows, calls, created, ipv4_defrag,
                              ipv6_defrag>>
          ELSE /\ stack' = rest
               /\ ipv4_defrag' = run.ipv4_defrag
               /\ ipv6_defrag' = run.ipv6_defrag
               /\ warnings' = warnings \o r.warn
               /\ status' = IF r.res \in {"Err", "panic"} THEN r.res
                            ELSE IF rest = <<>> THEN "Ok" ELSE "running"
               /\ flows' = r.fm
               /\ calls' = calls \o r.calls
               /\ created' = created
                               \o [i \in 1..Len(r.fresh) |->
                                     [id |-> r.fresh[i], live |-> TRUE]]
    /\ UNCHANGED <<packet, op, nframes, reinj, do_checksums>>
    /\ UNCHANGED tcpvars

\* One turn of the loop of run_plugins_v2: the callback of the next plugin
\* returns r; a re-injection is handled at once, inside the loop, and the
\* loop goes on with the next plugin when that handler has returned.  An
\* Error result is logged.
PluginCallback(r) ==
    /\ stack # <<>>
    /\ Head(stack).t = "run_plugins_v2"
    /\ Head(stack).todo # <<>>
    /\ LET loop == Head(stack)
           plugin == Head(loop.todo)
       IN /\ r.kind \in Registry[plugin].returns
          /\ r.kind \in {"L2", "L3", "L4"} => reinj < MaxReinject
          /\ calls' = Append(calls, Call(loop.cb, plugin, loop.layer,
                                         loop.args, loop.pinfo, r.kind))
          /\ stack' = Reinjection(r) \o <<LoopAfter(loop, r)>> \o Tail(stack)
          /\ reinj' = IF r.kind \in {"L2", "L3", "L4"} THEN reinj + 1
                      ELSE reinj
          /\ warnings' = IF r.kind = "Error"
                         THEN Append(warnings, "Plugin returned error")
                         ELSE warnings
    /\ UNCHANGED <<flows, packet, status, op, nframes, created,
                   do_checksums, ipv4_defrag, ipv6_defrag>>
    /\ UNCHANGED tcpvars

\* The orders flows.values() may visit the flows in.
Orders(fm) ==
    {o \in [1..Cardinality(DOMAIN fm.flows) -> DOMAIN fm.flows] :
        \A i, j \in DOMAIN o : i # j => o[i] # o[j]}

\* teardown() putting a new FlowMap in the place of the table instead of
\* clearing it.
TeardownNewFlowMap ==
    /\ stack = <<>>
    /\ status # "panic"
    /\ \E order \in Orders(flows) : calls' = TeardownCalls(flows, order)
    /\ flows' = FlowMapDefault
    /\ op' = "teardown"
    /\ status' = "idle"
    /\ created' = [i \in DOMAIN created |-> [created[i] EXCEPT !.live = FALSE]]
    /\ UNCHANGED <<stack, packet, nframes, reinj,
                   do_checksums, ipv4_defrag, ipv6_defrag, warnings>>
    /\ UNCHANGED tcpvars

\* teardown(): flow_destroyed, flows.clear(), post_process
Teardown ==
    /\ stack = <<>>
    /\ status # "panic"
    /\ \E order \in Orders(flows) : calls' = TeardownCalls(flows, order)
    /\ flows' = ClearFlows(flows)
    /\ op' = "teardown"
    /\ status' = "idle"
    /\ created' = [i \in DOMAIN created |-> [created[i] EXCEPT !.live = FALSE]]
    /\ UNCHANGED <<stack, packet, nframes, reinj,
                   do_checksums, ipv4_defrag, ipv6_defrag, warnings>>
    /\ UNCHANGED tcpvars

Init == InitAnalyzer /\ InitReassembly

PacketArrives ==
    /\ nframes < MaxFrames
    /\ \E data \in PacketDatas, ts \in Timestamps :
          HandlePacket(data, Len(data.data), ts)

PluginReturns == \E r \in PluginResults : PluginCallback(r)

Next ==
    PcapAnalyzerInit \/ PacketArrives \/ HandlerStep \/ PluginReturns
       \/ Teardown

Spec == Init /\ [][Next]_vars

(***************************************************************************)
(* Claims about the flow table, the plugin loops and teardown              *)
(***************************************************************************)
LayerCalls == {"handle_layer_physical", "handle_layer_link",
               "handle_layer_network", "handle_layer_transport"}

\* C2: both directions of the 5-tuple of every flow F of the table resolve
\* to F.flow_id, no two flows of the table share a 5-tuple in either
\* direction, and the flow a transport plugin is given for a packet is the
\* one the packet's 5-tuple resolves to, in the direction the flow was
\* first seen or the reverse one.
C2_FlowIdentity ==
    /\ \A id \in DOMAIN flows.flows :
          LET F == flows.flows[id]
          IN /\ LookupFlow(flows, F.five_tuple) = {F.flow_id}
             /\ LookupFlow(flows, GetReverse(F.five_tuple)) = {F.flow_id}
    /\ \A a, b \in DOMAIN flows.flows :
          a # b => flows.flows[a].five_tuple
                     \notin {flows.flows[b].five_tuple,
                             GetReverse(flows.flows[b].five_tuple)}
    /\ \A i \in DOMAIN calls :
          calls[i].cb = "handle_layer_transport" =>
             \A F \in calls[i].pinfo.flow :
                /\ LookupFlow(flows, calls[i].pinfo.five_tuple) = {F.flow_id}
                /\ calls[i].pinfo.five_tuple
                     \in {F.five_tuple, GetReverse(F.five_tuple)}

\* A packet of the reverse direction of the only flow of the table has
\* reached the transport plugins with that flow.
C2_Witness ==
    /\ Cardinality(DOMAIN flows.flows) = 1
    /\ nframes >= 2
    /\ \E i \in DOMAIN calls :
          /\ calls[i].cb = "handle_layer_transport"
          /\ ~calls[i].pinfo.to_server
          /\ \E F \in calls[i].pinfo.flow :
                /\ F.flow_id \in DOMAIN flows.flows
                /\ F.five_tuple = GetReverse(calls[i].pinfo.five_tuple)
                /\ F.five_tuple # calls[i].pinfo.five_tuple

C9_LayerOrder ==
    op = "handle_packet" =>
       \A i, j \in DOMAIN calls :
          (i < j /\ calls[i].cb \in LayerCalls /\ calls[j].cb \in LayerCalls)
             => calls[i].layer <= calls[j].layer

\* C10: teardown gives every flow of the table to flow_destroyed of every
\* plugin with PLUGIN_FLOW_DEL, then gives post_process to every plugin,
\* once each and after every flow_destroyed, runs no other callback, and
\* leaves the table empty.
C10_TeardownOrder ==
    [][op' = "teardown" =>
         /\ flows'.flows = <<>>
         /\ flows'.flows_id = <<>>
         /\ \A i \in DOMAIN calls' :
               calls'[i].cb \in {"flow_destroyed", "post_process"}
         /\ \A id \in DOMAIN flows.flows :
               \A p \in Plugins :
                  "FLOW_DEL" \in Registry[p].types =>
                     \E i \in DOMAIN calls' :
                        calls'[i] = FlowCall("flow_destroyed", p,
                                             flows.flows[id])
         /\ \A p \in Plugins :
               Cardinality({i \in DOMAIN calls' :
                              calls'[i] = PostProcessCall(p)}) = 1
         /\ \A i, j \in DOMAIN calls' :
               (calls'[i].cb = "flow_destroyed"
                  /\ calls'[j].cb = "post_process") => i < j]_vars

\* teardown has run on a table of two flows: both were announced destroyed
\* and the table is empty.
C10_Witness ==
    /\ op = "teardown"
    /\ flows.flows = <<>>
    /\ Cardinality({calls[i].pinfo.flow : i \in
                      {k \in DOMAIN calls : calls[k].cb = "flow_destroyed"}})
         >= 2
    /\ \E i \in DOMAIN calls : calls[i].cb = "post_process"

(***************************************************************************)
(* Claims about malformed packets, the dispatch list and plugin errors     *)
(***************************************************************************)
\* C17: handle_packet returns Ok for an L2 or L3 packet whatever its
\* headers hold: a header too short to parse drops the packet, with no
\* flow created or updated, and is no error for the caller.
C17_ShortHeaderOk ==
    (op = "handle_packet" /\ packet.data.variant \in {"L2", "L3"})
        => status # "Err"

\* The plugins registered for (layer, filter), in registration order.
Registered(layer, filter) ==
    SelectSeq([p \in Plugins |-> p],
              LAMBDA p : Registry[p].layer = layer
                           /\ Registry[p].filter = filter)

IsSuffix(s, list) ==
    \E n \in 0..Len(list) : s = SubSeq(list, n + 1, Len(list))

\* C18: what a loop of run_plugins_v2 for (layer L, filter F) has left to
\* call is always a suffix of the plugins registered for (L, F) followed by
\* the ones registered for (L, 0), each in registration order; the plugin
\* it calls is the first of what is left, and is registered for layer L
\* with the filter F or 0.
C18_DispatchOrder ==
    [][/\ \A k \in DOMAIN stack' :
             stack'[k].t = "run_plugins_v2" =>
                IsSuffix(stack'[k].todo,
                         Registered(stack'[k].layer, stack'[k].filter)
                           \o Registered(stack'[k].layer, 0))
       /\ (Len(calls') = Len(calls) + 1
             /\ calls'[Len(calls')].cb \in LayerCalls) =>
             LET loop == Head(stack)
                 call == calls'[Len(calls')]
             IN /\ loop.t = "run_plugins_v2"
                /\ call.plugin = Head(loop.todo)
                /\ call.layer = loop.layer
                /\ Registry[call.plugin].layer = loop.layer
                /\ Registry[call.plugin].filter \in {loop.filter, 0}]_vars

\* An IPv4 packet was handled to its end with no re-injection: at the
\* network layer the two plugins of the filter 0x0800 were called, the
\* first and the seventh of the registry, then the two catch-all plugins,
\* the second and the eighth, and no other one.
C18_Witness ==
    /\ op = "handle_packet"
    /\ status = "Ok"
    /\ reinj = 0
    /\ LET network == SelectSeq(calls, LAMBDA c : c.layer = 3)
       IN [i \in DOMAIN network |-> network[i].plugin] = <<1, 7, 2, 8>>

\* C19: a callback that returns Error leaves the loop with every plugin
\* after it still to call, the handlers waiting below the loop as they
\* were, and handle_packet running: the Error ends nothing.
C19_PluginErrorContinues ==
    [][(Len(calls') = Len(calls) + 1
          /\ calls'[Len(calls')].result = "Error") =>
          /\ stack # <<>>
          /\ stack' = <<[Head(stack) EXCEPT !.todo = Tail(Head(stack).todo)]>>
                        \o Tail(stack)
          /\ status' = "running"
          /\ flows' = flows]_vars

\* handle_packet returned Ok for a packet for which the first network
\* plugin returned Error: the catch-all network plugin was called after it,
\* and a transport plugin after both.
C19_Witness ==
    /\ op = "handle_packet"
    /\ status = "Ok"
    /\ \E i, j, k \in DOMAIN calls :
          /\ i < j /\ j < k
          /\ calls[i].result = "Error"
          /\ calls[i].plugin = 1 /\ calls[i].layer = 3
          /\ calls[j].plugin = 2 /\ calls[j].layer = 3
          /\ calls[k].cb = "handle_layer_transport"

(***************************************************************************)
(* The analyzer driven with VXLAN: the frame of a UDP datagram or of an    *)
(* echo request, alone, and inside a UDP datagram to port 4789 or from it; *)
(* a datagram to port 4789 too short for a VXLAN header.                   *)
(***************************************************************************)
MaxVxlanFrames == 2

\* An echo request from the client to the server, in an Ethernet frame.
PingFrame ==
    EthernetPacket("unicast", EtherTypesIpv4,
                   Ipv4Packet(ClientAddr, ServerAddr,
                              IpNextHeaderProtocolsIcmp, IcmpPacket(8, 0)))

\* A UDP datagram between the ports given, from the client to the server,
\* in an Ethernet frame.
UdpFrame(src_port, dst_port, payload) ==
    EthernetPacket("unicast", EtherTypesIpv4,
                   Ipv4Packet(ClientAddr, ServerAddr,
                              IpNextHeaderProtocolsUdp,
                              UdpPacket(src_port, dst_port, payload)))

VxlanSrcFrame == UdpFrame(VxlanPort, ServerPort, VxlanPacket(InnerFrame))
VxlanPingFrame == UdpFrame(ClientPort, VxlanPort, VxlanPacket(PingFrame))
VxlanShortFrame == UdpFrame(ClientPort, VxlanPort, <<8, 0, 0, 0>>)

\* The frames that carry a frame over VXLAN, and the frames they carry.
VxlanCarriers == {VxlanFrame, VxlanSrcFrame, VxlanPingFrame}
VxlanInner(frame) == IF frame = VxlanPingFrame THEN PingFrame ELSE InnerFrame

VxlanFrames == VxlanCarriers \cup {VxlanShortFrame, InnerFrame, PingFrame}

VxlanPacketArrives ==
    /\ nframes < MaxVxlanFrames
    /\ \E frame \in VxlanFrames, ts \in Timestamps :
          HandlePacket(PacketDataL2(frame), Len(frame), ts)

NextVxlan == VxlanPacketArrives \/ HandlerStep \/ PluginReturns \/ Teardown

InitVxlan == InitAnalyzer /\ InitReassembly

SpecVxlan == InitVxlan /\ [][NextVxlan]_vars

\* The 5-tuple of the frame inside the VXLAN datagram: of the UDP
\* datagram, and of the echo request, whose type and code stand for the
\* ports.
InnerFiveTuple ==
    FromThreeTuple(ThreeTuple(EtherTypesIpv4, ClientAddr, ServerAddr),
                   ClientPort, ServerPort, IpNextHeaderProtocolsUdp)
PingFiveTuple ==
    FromThreeTuple(ThreeTuple(EtherTypesIpv4, ClientAddr, ServerAddr),
                   8, 0, IpNextHeaderProtocolsIcmp)

\* The handler on top of the stack is about to dispatch, on the IP
\* protocol, a UDP datagram whose source or destination port is 4789.
AtVxlanUdp ==
    /\ stack # <<>>
    /\ Head(stack).t \in {"handle_l3_common", "handle_l4_ipv6frag_l4"}
    /\ Head(stack).l3_info.l4_proto = IpNextHeaderProtocolsUdp
    /\ ~TooShort(Head(stack).data, "udp")
    /\ VxlanPort \in {U16(Head(stack).data, 0), U16(Head(stack).data, 2)}

\* The callbacks below the transport layer for a frame of the client with
\* an IPv4 datagram of the protocol proto, in the order of the layers, as
\* if every one of them returned None: the physical plugin is given the
\* frame, once for the list of the filter 0 and once for the catch-all
\* list, which is the same list; the link plugin is given the payload of
\* the frame; the network plugins, the two of IPv4 before the two
\* catch-all ones, the datagram.
LowerCalls(frame, proto) ==
    <<Call("handle_layer_physical", 4, 1, <<frame>>, NoPinfo, "None"),
      Call("handle_layer_physical", 4, 1, <<frame>>, NoPinfo, "None"),
      Call("handle_layer_link", 5, 2,
           <<LinkLayerTypeEthernet, SliceFrom(frame, 14)>>, NoPinfo, "None")>>
      \o [i \in 1..4 |->
            Call("handle_layer_network", <<1, 7, 2, 8>>[i], 3,
                 <<SliceFrom(frame, 14),
                   ThreeTuple(EtherTypesIpv4, ClientAddr, ServerAddr), proto>>,
                 NoPinfo, "None")]

\* The flow of the 5-tuple given, created by the first packet, as the
\* table holds it.
FirstFlow(five_tuple, ts) == [FlowNew(five_tuple, ts) EXCEPT !.flow_id = 1]

\* The callbacks for InnerFrame or PingFrame when it is the first packet and
\* is handled alone: the ones below the transport layer, flow_created for
\* the new flow and, for the UDP datagram, the transport plugin of UDP.
AloneCalls(frame, ts) ==
    IF frame = PingFrame
    THEN LowerCalls(frame, IpNextHeaderProtocolsIcmp)
            \o <<FlowCall("flow_created", 1, FlowNew(PingFiveTuple, ts))>>
    ELSE LowerCalls(frame, IpNextHeaderProtocolsUdp)
            \o <<FlowCall("flow_created", 1, FlowNew(InnerFiveTuple, ts)),
                 Call("handle_layer_transport", 3, 4, <<>>,
                      [five_tuple |-> InnerFiveTuple, to_server |-> TRUE,
                       l3_type |-> EtherTypesIpv4,
                       l4_data |-> SliceFrom(frame, 14 + 20),
                       l4_type |-> IpNextHeaderProtocolsUdp,
                       l4_payload |-> Some(SliceFrom(frame, 14 + 20 + 8)),
                       flow |-> {FirstFlow(InnerFiveTuple, ts)},
                       pcap_index |-> 1], "None")>>

\* The flow table after InnerFrame or PingFrame as the first packet.
AloneFlows(frame, ts) ==
    LET five_tuple == IF frame = PingFrame THEN PingFiveTuple
                      ELSE InnerFiveTuple
    IN InsertFlow(FlowMapDefault, five_tuple, FirstFlow(five_tuple, ts)).fm

\* The callbacks of the current operation, whatever they returned.
CallsMade == [i \in DOMAIN calls |-> [calls[i] EXCEPT !.result = "None"]]

\* handle_packet has returned Ok for the frame as the first packet, and no
\* plugin has re-injected anything.
HandledAlone(frame) ==
    /\ op = "handle_packet"
    /\ status = "Ok"
    /\ packet.data = PacketDataL2(frame)
    /\ nframes = 1
    /\ reinj = 0

\* The step that dispatches a UDP datagram from or to port 4789 runs no
\* callback and leaves the flow table as it is; it leaves one handle_l2 to
\* run, on the payload after the 8 bytes of the VXLAN header, or returns Err
\* when the datagram has no such header.
VxlanReentersL2 ==
    AtVxlanUdp =>
        LET l4_data == SliceFrom(Head(stack).data, 8)
        IN /\ calls' = calls
           /\ flows' = flows
           /\ created' = created
           /\ IF TooShort(l4_data, "vxlan")
              THEN stack' = <<>> /\ status' = "Err"
              ELSE /\ stack' = <<L2Task(SliceFrom(l4_data, 8))>>
                                  \o Tail(stack)
                   /\ status' = "running"

\* No flow and no transport callback carries a UDP 5-tuple with port 4789.
\* When handle_packet has returned for a frame carried over VXLAN as the
\* first packet, with no re-injection, the callbacks after the ones below
\* the transport layer for the outer frame are the callbacks the inner
\* frame gets when it is handled alone, with the same arguments, and the
\* flow table is the one the inner frame leaves.
OnlyInnerFrameSeen ==
    /\ \A id \in DOMAIN flows.flows :
          flows.flows[id].five_tuple.proto = IpNextHeaderProtocolsUdp =>
             /\ flows.flows[id].five_tuple.src_port # VxlanPort
             /\ flows.flows[id].five_tuple.dst_port # VxlanPort
    /\ \A i \in DOMAIN calls :
          (calls[i].cb = "handle_layer_transport"
             /\ calls[i].pinfo.l4_type = IpNextHeaderProtocolsUdp) =>
             /\ calls[i].pinfo.five_tuple.src_port # VxlanPort
             /\ calls[i].pinfo.five_tuple.dst_port # VxlanPort
    /\ \A inner \in {InnerFrame, PingFrame} :
          HandledAlone(inner) =>
             /\ CallsMade = AloneCalls(inner, packet.ts)
             /\ flows = AloneFlows(inner, packet.ts)
    /\ \A carrier \in VxlanCarriers :
          HandledAlone(carrier) =>
             /\ CallsMade
                  = LowerCalls(carrier, IpNextHeaderProtocolsUdp)
                      \o AloneCalls(VxlanInner(carrier), packet.ts)
             /\ flows = AloneFlows(VxlanInner(carrier), packet.ts)

\* C20: a UDP datagram whose source or destination port is 4789 is taken
\* for VXLAN: after the 8 bytes of the VXLAN header its payload is handled
\* as a frame by handle_l2 again, and the plugins above the network layer
\* and the flow table see the inner frame only.
C20_VxlanDecapsulation == [][VxlanReentersL2]_vars /\ []OnlyInnerFrameSeen

\* handle_packet returned Ok for the frame carried in a datagram from port
\* 4789 as the first packet: the physical plugin was called for the outer
\* frame and for the inner one, the table holds the flow of the inner
\* frame, and the transport plugin was called for it.
C20_Witness ==
    /\ HandledAlone(VxlanSrcFrame)
    /\ \E i, j \in DOMAIN calls :
          /\ calls[i].cb = "handle_layer_physical"
          /\ calls[i].args = <<VxlanSrcFrame>>
          /\ calls[j].cb = "handle_layer_physical"
          /\ calls[j].args = <<InnerFrame>>
    /\ \E id \in DOMAIN flows.flows :
          flows.flows[id].five_tuple = InnerFiveTuple
    /\ \E i \in DOMAIN calls :
          /\ calls[i].cb = "handle_layer_transport"
          /\ calls[i].pinfo.five_tuple = InnerFiveTuple

(* Claims about the flows *)
\* The PacketInfo of every transport dispatch in progress or done for the
\* current packet.
TransportPinfos ==
    {stack[k].pinfo : k \in {j \in DOMAIN stack :
                                stack[j].t = "run_plugins_v2"
                                  /\ stack[j].layer = 4}}
      \cup {calls[i].pinfo : i \in {j \in DOMAIN calls :
                                      calls[j].cb = "handle_layer_transport"}}

\* What C12 says of one PacketInfo: its flow stores the packet's 5-tuple or
\* the reverse of it, the tuple the table still holds for that flow, and
\* to_server tells which of the two.
PinfoAgreesWithFlow(pinfo, fm) ==
    \A f \in pinfo.flow :
       /\ f.five_tuple \in {pinfo.five_tuple, GetReverse(pinfo.five_tuple)}
       /\ pinfo.to_server <=> (pinfo.five_tuple = f.five_tuple)
       /\ f.flow_id \in DOMAIN fm.flows =>
             fm.flows[f.flow_id].five_tuple = f.five_tuple

\* C12: a flow that stays in the table keeps its five_tuple; a flow that
\* enters the table has the 5-tuple of the packet being handled, which is
\* reported with to_server true; and every packet given to the transport
\* plugins has a PacketInfo whose to_server is true exactly when its
\* 5-tuple is the one stored in its flow, the flow being the same for both
\* directions.
C12_FiveTupleFirstSeen ==
    [][/\ \A id \in DOMAIN flows.flows \cap DOMAIN flows'.flows :
             flows'.flows[id].five_tuple = flows.flows[id].five_tuple
       /\ \A id \in DOMAIN flows'.flows \ DOMAIN flows.flows :
             /\ stack' # <<>>
             /\ Head(stack').t = "run_plugins_v2"
             /\ Head(stack').layer = 4
             /\ Head(stack').pinfo.five_tuple = flows'.flows[id].five_tuple
             /\ Head(stack').pinfo.to_server
             /\ Head(stack').pinfo.flow = {flows'.flows[id]}
       /\ \A pinfo \in TransportPinfos' : PinfoAgreesWithFlow(pinfo, flows')
      ]_vars

\* A second packet was handled, in the direction opposite to the one that
\* created its flow: a transport plugin got it with to_server false and
\* the flow of the first packet.
C12_Witness ==
    /\ op = "handle_packet"
    /\ status = "Ok"
    /\ nframes = 2
    /\ \E i \in DOMAIN calls :
          /\ calls[i].cb = "handle_layer_transport"
          /\ ~calls[i].pinfo.to_server
          /\ \E f \in calls[i].pinfo.flow :
                /\ f.five_tuple = GetReverse(calls[i].pinfo.five_tuple)
                /\ f.flow_id \in DOMAIN flows.flows
                /\ flows.flows[f.flow_id].five_tuple = f.five_tuple

(***************************************************************************)
(* The analyzer given UDP datagrams of one flow, either way, whose         *)
(* timestamps go forward or backward.                                      *)
(***************************************************************************)
CaptureTimes == {10, 20}

TimedPacketDatas ==
    {PacketDataL2(EthernetPacket("unicast", EtherTypesIpv4,
                                 Datagram(d, IpNextHeaderProtocolsUdp))) :
        d \in BOOLEAN}

InitTime == InitAnalyzer /\ InitReassembly

TimedPacketArrives ==
    /\ nframes < MaxFrames
    /\ \E data \in TimedPacketDatas, ts \in CaptureTimes :
          HandlePacket(data, Len(data.data), ts)

NextTime == TimedPacketArrives \/ HandlerStep \/ PluginReturns \/ Teardown

SpecTime == InitTime /\ [][NextTime]_vars

\* C11: no step of handle_packet lowers the last_seen of a flow that stays
\* in the table, whatever the timestamp of the packet.
C11_LastSeenNeverDecreases ==
    [][\A id \in DOMAIN flows.flows \cap DOMAIN flows'.flows :
          flows'.flows[id].last_seen >= flows.flows[id].last_seen]_vars

(***************************************************************************)
(* The reassembler on a connection that has carried almost 2^32 bytes from *)
(* the client: the client's relative numbers are Unit below 2^32, and its  *)
(* next segments have relative sequence numbers on both sides of the wrap. *)
(***************************************************************************)
MaxLatePackets == 4

\* 2^32 - Unit, as a relative number
LateRel == Sub32(W(0), W(Unit))

\* A packet of direction d whose relative sequence and acknowledgement
\* numbers are the u32 q and a.
LatePacket(d, q, a, fl, n) ==
    [to_server |-> d, seq |-> Add32(IsnOf(d), q),
     ack |-> Add32(IsnOf(~d), a), flags |-> fl,
     payload |-> Payload(Add32(IsnOf(d), q), n), ts |-> 0]

LateSegments ==
    {LatePacket(TRUE, q, W(1), {"ACK"}, Unit) :
        q \in {LateRel, W(0), W(Unit)}}
LateAcks ==
    {LatePacket(FALSE, W(1), a, {"ACK"}, 0) :
        a \in {LateRel, W(0), W(Unit), W(2 * Unit)}}
LatePackets == LateSegments \cup LateAcks

LateStream ==
    [EstablishedStream EXCEPT !.client.next_rel_seq = LateRel,
                              !.client.last_rel_ack = LateRel]

InitLate ==
    /\ m = [f \in {TcpFlow} |-> LateStream]
    /\ result = "Ok"
    /\ npkts = 3
    /\ dlog = [side \in {"client", "server"} |-> <<>>]
    /\ replays = {}
    /\ sweep = {}
    /\ hs = [phase |-> "done", c |-> ClientIsn, s |-> ServerIsn]
    /\ last = LatePacket(FALSE, W(1), LateRel, {"ACK"}, 0)

LatePacketArrives ==
    \E p \in LatePackets : npkts < 3 + MaxLatePackets /\ Update(TcpFlow, p)

NextWrap == LatePacketArrives

InitWrap == InitLate /\ InitAnalyzer

SpecWrap == InitWrap /\ [][NextWrap]_vars

\* a is ahead of b: (a - b) mod 2^32 lies in 1..2^31.
Ahead(a, b) ==
    LET d == Sub32(a, b)
    IN d # W(0) /\ (d[1] < Half \div 2 \/ d = <<Half \div 2, 0>>)

\* No segment of a queue is ahead of one queued behind it.
SortedWrapping(segs) ==
    \A i, j \in DOMAIN segs :
       i < j => ~Ahead(segs[i].rel_seq, segs[j].rel_seq)

\* C13: after every packet both queues are in wrapping order (the
\* comparison of insert_sorted), and for every ACK on an established
\* connection the comparisons of send_peer_segments on the numbers the
\* packet found, rel_ack < last_rel_ack and next_rel_seq > rel_ack, are
\* true exactly when the second number is ahead of the first in the
\* wrapping order.
C13_WrappingComparisons ==
    [][/\ \A side \in {"client", "server"} :
             SortedWrapping(m'[TcpFlow][side].segments)
       /\ LET s == m[TcpFlow]
              p == last'
              acked == Destination(s, p.to_server)
              rel_ack == Sub32(p.ack, acked.isn)
          IN (npkts' = npkts + 1 /\ s.status = "Established"
                /\ "ACK" \in p.flags /\ rel_ack # acked.last_rel_ack) =>
                /\ Lt32(rel_ack, acked.last_rel_ack)
                     <=> Ahead(acked.last_rel_ack, rel_ack)
                /\ acked.segments # <<>> =>
                      (Gt32(acked.next_rel_seq, rel_ack)
                         <=> Ahead(acked.next_rel_seq, rel_ack))]_vars

(***************************************************************************)
(* Scenario S6: the client's initial sequence number is 0xFFFFFF00, and    *)
(* its first 512 bytes of data cross 2^32.  The connection is established; *)
(* the data comes as one segment or as two halves, in any order, with the  *)
(* server's ACKs.                                                          *)
(***************************************************************************)
MaxS6Packets == 4

S6ClientIsn == <<Half - 1, Half - 256>>
S6PayloadLen == 2^9
S6IsnOf(to_server) == IF to_server THEN S6ClientIsn ELSE ServerIsn

\* The 512 bytes the client sends from sequence number isn + 1 on.
S6Payload == Payload(Add32(S6ClientIsn, W(1)), S6PayloadLen)

S6Packet(d, q, a, fl, n) ==
    [to_server |-> d, seq |-> Add32(S6IsnOf(d), W(q)),
     ack |-> Add32(S6IsnOf(~d), W(a)), flags |-> fl,
     payload |-> Payload(Add32(S6IsnOf(d), W(q)), n), ts |-> 0]

S6Segments ==
    {S6Packet(TRUE, 1, 1, {"ACK"}, S6PayloadLen),
     S6Packet(TRUE, 1, 1, {"ACK"}, S6PayloadLen \div 2),
     S6Packet(TRUE, 1 + S6PayloadLen \div 2, 1, {"ACK"}, S6PayloadLen \div 2)}
S6Acks ==
    {S6Packet(FALSE, 1, a, {"ACK"}, 0) :
        a \in {1, 1 + S6PayloadLen \div 2, 1 + S6PayloadLen}}
S6Packets == S6Segments \cup S6Acks

S6Stream ==
    [client |-> EstablishedPeer(S6ClientIsn, ServerIsn),
     server |-> EstablishedPeer(ServerIsn, S6ClientIsn),
     status |-> "Established", last_seen_ts |-> 0]

InitS6Stream ==
    /\ m = [f \in {TcpFlow} |-> S6Stream]
    /\ result = "Ok"
    /\ npkts = 3
    /\ dlog = [side \in {"client", "server"} |-> <<>>]
    /\ replays = {}
    /\ sweep = {}
    /\ hs = [phase |-> "done", c |-> S6ClientIsn, s |-> ServerIsn]
    /\ last = S6Packet(TRUE, 1, 1, {"ACK"}, 0)

S6PacketArrives ==
    \E p \in S6Packets : npkts < 3 + MaxS6Packets /\ Update(TcpFlow, p)

NextS6 == S6PacketArrives

InitS6 == InitS6Stream /\ InitAnalyzer

SpecS6 == InitS6 /\ [][NextS6]_vars

\* The queue holds the 512 bytes once, from relative sequence number 1 on,
\* with no hole: as one segment or as the two halves.
HoldsS6Payload(segs) ==
    /\ segs # <<>>
    /\ Concat(segs) = S6Payload
    /\ \A i \in DOMAIN segs :
          segs[i].rel_seq = W(1 + Len(Concat(SubSeq(segs, 1, i - 1))))

\* The server's ACK of the whole payload: its number is isn + 513 mod 2^32.
IsS6FinalAck(p) ==
    /\ ~p.to_server
    /\ "ACK" \in p.flags
    /\ p.ack = Add32(S6ClientIsn, W(1 + S6PayloadLen))

\* C14 (S6): when the client's queue holds the 512 bytes that cross 2^32
\* and nothing of them was acknowledged yet, the server's ACK of all of
\* them gives the plugins exactly these bytes, in order, empties the queue,
\* and moves last_rel_ack from 1 to 513, a larger number in the order the
\* code compares with.
C14_SequenceWrapDelivery ==
    [][LET c == m[TcpFlow].client
           c2 == m'[TcpFlow].client
       IN (/\ npkts' = npkts + 1
           /\ IsS6FinalAck(last')
           /\ c.status = "Established"
           /\ c.next_rel_seq = W(1)
           /\ c.last_rel_ack = W(1)
           /\ HoldsS6Payload(c.segments)) =>
             /\ result' = "Ok"
             /\ Concat(dlog'.client) = Concat(dlog.client) \o S6Payload
             /\ c2.segments = <<>>
             /\ c2.next_rel_seq = W(1 + S6PayloadLen)
             /\ c2.last_rel_ack = W(1 + S6PayloadLen)
             /\ Gt32(c2.last_rel_ack, c.last_rel_ack)]_vars

\* The two halves were queued and the server acknowledged both at once:
\* the plugins have the 512 bytes, and last_rel_ack is 513.
C14_Witness ==
    /\ IsS6FinalAck(last)
    /\ npkts = 3 + 3
    /\ Len(dlog.client) = 2
    /\ DeliveredBytes("client") = S6Payload
    /\ m[TcpFlow].client.segments = <<>>
    /\ m[TcpFlow].client.last_rel_ack = W(1 + S6PayloadLen)

(***************************************************************************)
(* Expiry.  Two established connections: the packets belong to the first,  *)
(* last seen at 0; the second was last seen later.  Packets come in the    *)
(* order of their timestamps, so that the delay since the last packet is   *)
(* never negative; check_expired_connections is called with any time.      *)
(***************************************************************************)
MaxExpiryPackets == 3

IdleFlow == TcpFlow + 1
ExpiryFlows == {TcpFlow, IdleFlow}

ExpiryTimes == {0, DefaultTimeout, DefaultTimeout + 1, 2 * DefaultTimeout + 1}

\* A data segment of the client, an ACK of the server for it, and a SYN.
ExpiryPackets ==
    {[p EXCEPT !.ts = ts] :
        p \in {DataPacket(TRUE, 1, 1, {"ACK"}, Unit),
               DataPacket(FALSE, 1, 1 + Unit, {"ACK"}, 0),
               DataPacket(TRUE, 0, 0, {"SYN"}, 0)},
        ts \in ExpiryTimes}

InitExpiryStreams ==
    /\ m = [f \in ExpiryFlows |->
              IF f = TcpFlow THEN EstablishedStream
              ELSE [EstablishedStream
                      EXCEPT !.last_seen_ts = 2 * DefaultTimeout + 1]]
    /\ result = "Ok"
    /\ npkts = 3
    /\ dlog = [side \in {"client", "server"} |-> <<>>]
    /\ replays = {}
    /\ sweep = {}
    /\ hs = [phase |-> "done", c |-> ClientIsn, s |-> ServerIsn]
    /\ last = DataPacket(TRUE, 1, 1, {"ACK"}, 0)

ExpiryPacketArrives ==
    \E p \in ExpiryPackets :
       /\ npkts < 3 + MaxExpiryPackets
       /\ p.ts >= m[TcpFlow].last_seen_ts
       /\ Update(TcpFlow, p)

\* TcpStreamReassembly::check_expired_connections(now)
CheckExpired(now) ==
    /\ result # "panic"
    /\ m' = CheckExpiredConnections(m, now, DefaultTimeout)
    /\ sweep' = {now}
    /\ UNCHANGED <<result, npkts, dlog, replays, hs, last>>
    /\ UNCHANGED avars

ExpirySweep == \E now \in ExpiryTimes : CheckExpired(now)

\* finalize_tcp_streams: every stream is dropped from the map.
FinalizeTcpStreams ==
    /\ result # "panic"
    /\ m' = <<>>
    /\ sweep' = {}
    /\ UNCHANGED <<result, npkts, dlog, replays, hs, last>>
    /\ UNCHANGED avars

NextExpiry == ExpiryPacketArrives \/ ExpirySweep

InitExpiry == InitExpiryStreams /\ InitAnalyzer

SpecExpiry == InitExpiry /\ [][NextExpiry]_vars

\* The same with finalize_tcp_streams: a packet of a flow that is no longer
\* in the map starts a new stream.
FinalizePacketArrives ==
    \E p \in ExpiryPackets :
       /\ npkts < 3 + MaxExpiryPackets
       /\ TcpFlow \in DOMAIN m => p.ts >= m[TcpFlow].last_seen_ts
       /\ Update(TcpFlow, p)

NextFinalize == FinalizePacketArrives \/ ExpirySweep \/ FinalizeTcpStreams

InitFinalize == InitExpiryStreams /\ InitAnalyzer

SpecFinalize == InitFinalize /\ [][NextFinalize]_vars

\* The stream with both peers Closed and nothing else changed.
BothClosed(s) ==
    [s EXCEPT !.client.status = "Closed", !.server.status = "Closed"]

\* C15: a packet that comes more than the timeout after the last one of
\* its stream closes both peers and changes nothing else of the stream
\* (no segment queued, no counter moved, no handshake step), update returns
\* Expired and the plugins get nothing; a packet that comes exactly the
\* timeout after the last one is processed as the same packet with no
\* delay is, and its time becomes last_seen_ts.
C15_ExpiryAfterTimeout ==
    [][npkts' = npkts + 1 =>
         LET s == m[TcpFlow]
             p == last'
             elapsed == p.ts - s.last_seen_ts
             undelayed == UpdateStream(s, [p EXCEPT !.ts = s.last_seen_ts],
                                       npkts', DefaultTimeout)
         IN /\ elapsed > DefaultTimeout =>
                 /\ m'[TcpFlow] = BothClosed(s)
                 /\ result' = "Expired"
                 /\ dlog' = dlog
            /\ elapsed = DefaultTimeout =>
                 /\ result' = undelayed.res
                 /\ result' # "Expired"
                 /\ m'[TcpFlow] = [undelayed.stream
                                     EXCEPT !.last_seen_ts = p.ts]
                 /\ dlog'[AckedSide(p)] = dlog[AckedSide(p)] \o undelayed.out
      ]_vars

\* A data segment came exactly 120 s after the connection was set up and
\* was queued; the next one came 121 s after it and found the stream
\* expired: both peers are Closed, and the queue holds the first segment
\* only.
C15_Witness ==
    /\ npkts = 3 + 2
    /\ result = "Expired"
    /\ m[TcpFlow].last_seen_ts = DefaultTimeout
    /\ last.ts = 2 * DefaultTimeout + 1
    /\ last.payload # <<>>
    /\ m[TcpFlow].client.status = "Closed"
    /\ m[TcpFlow].server.status = "Closed"
    /\ Len(m[TcpFlow].client.segments) = 1

\* C16: check_expired_connections(now) keeps every stream in the table,
\* closes both peers of the streams last seen more than the timeout before
\* now and changes nothing else of them, and leaves the other streams as
\* they are, those last seen after now among them.
C16_SweepClosesIdleStreams ==
    [][\A now \in sweep' :
          /\ DOMAIN m' = DOMAIN m
          /\ \A f \in DOMAIN m :
                IF m[f].last_seen_ts <= now
                     /\ now - m[f].last_seen_ts > DefaultTimeout
                THEN m'[f] = BothClosed(m[f])
                ELSE m'[f] = m[f]]_vars

\* check_expired_connections(121) has closed the first stream, idle since
\* 0, and left the second one, last seen at 241, established.
C16_Witness ==
    /\ sweep = {DefaultTimeout + 1}
    /\ m[TcpFlow].last_seen_ts = 0
    /\ m[TcpFlow].client.status = "Closed"
    /\ m[TcpFlow].server.status = "Closed"
    /\ m[IdleFlow].last_seen_ts > DefaultTimeout + 1
    /\ m[IdleFlow].client.status = "Established"
    /\ m[IdleFlow].server.status = "Established"

(***************************************************************************)
(* Claims about the first packet of a stream and about FIN and RST         *)
(***************************************************************************)
\* The stream update finds for the flow: the one of the map, or a new one.
StreamBefore == IF TcpFlow \in DOMAIN m THEN m[TcpFlow] ELSE NewStream(0)

\* C24: a packet with neither SYN nor RST whose sender is Closed makes
\* update return HandshakeFailed.
C24_ClosedOtherHandshakeFailed ==
    [][(/\ npkts' = npkts + 1
        /\ Origin(StreamBefore, last'.to_server).status = "Closed"
        /\ last'.flags \cap {"SYN", "RST"} = {}) =>
          result' = "HandshakeFailed"]_vars

(***************************************************************************)
(* Closing.  An established stream driven with data segments, FIN and RST  *)
(* packets of both directions, with and without ACK, whose sequence and    *)
(* acknowledgement numbers are on one side or the other of the first       *)
(* segment.                                                                *)
(***************************************************************************)
MaxClosePackets == 3

CloseSegments ==
    {DataPacket(d, 1, a, {"ACK"}, Unit) :
        d \in BOOLEAN, a \in {1, 1 + Unit}}
CloseFins ==
    {DataPacket(d, 1 + Unit, a, fl, 0) :
        d \in BOOLEAN, a \in {1, 1 + Unit}, fl \in {{"FIN"}, {"FIN", "ACK"}}}
CloseRsts ==
    {DataPacket(d, q, 1 + Unit, fl, 0) :
        d \in BOOLEAN, q \in {1, 1 + Unit}, fl \in {{"RST"}, {"RST", "ACK"}}}
ClosePackets == CloseSegments \cup CloseFins \cup CloseRsts

ClosePacketArrives ==
    \E p \in ClosePackets : npkts < 3 + MaxClosePackets /\ Update(TcpFlow, p)

NextClose == ClosePacketArrives

InitClose == InitEstablished /\ InitAnalyzer

SpecClose == InitClose /\ [][NextClose]_vars

\* The peers of the stream before and after the packet `last'`.
OriginBefore == Origin(m[TcpFlow], last'.to_server)
DestinationBefore == Destination(m[TcpFlow], last'.to_server)
OriginAfter == Origin(m'[TcpFlow], last'.to_server)
DestinationAfter == Destination(m'[TcpFlow], last'.to_server)
RelSeqOfLast == Sub32(last'.seq, OriginBefore.isn)
RelAckOfLast == Sub32(last'.ack, DestinationBefore.isn)

\* What the ACK of the packet does to the other peer: send_peer_segments
\* up to rel_ack when the ACK flag is set, nothing otherwise.
AckPath ==
    IF "ACK" \in last'.flags
    THEN SendPeerSegments(DestinationBefore, RelAckOfLast)
    ELSE [peer |-> DestinationBefore, out |-> <<>>]

\* C25: a FIN without RST from an Established peer puts one segment with
\* the packet's flags and data on that peer's queue, also when the data is
\* empty, and moves the peer to FinWait1 with nothing else of it changed;
\* the other peer is what send_peer_segments up to rel_ack leaves when the
\* ACK flag is set, the segments it releases go to the plugins, and it is
\* untouched without ACK; its status is unchanged either way.
C25_FinQueuesAndMoves ==
    [][(/\ npkts' = npkts + 1
        /\ "FIN" \in last'.flags
        /\ "RST" \notin last'.flags
        /\ OriginBefore.status = "Established") =>
          /\ result' = "Ok"
          /\ OriginAfter.status = "FinWait1"
          /\ Len(OriginAfter.segments) = Len(OriginBefore.segments) + 1
          /\ \E i \in DOMAIN OriginAfter.segments :
                /\ OriginAfter.segments[i].flags = last'.flags
                /\ OriginAfter.segments[i].data = last'.payload
                /\ OriginAfter.segments[i].rel_seq = RelSeqOfLast
                /\ OriginBefore.segments
                     = SubSeq(OriginAfter.segments, 1, i - 1)
                         \o SubSeq(OriginAfter.segments, i + 1,
                                   Len(OriginAfter.segments))
          /\ OriginAfter = [OriginBefore
                              EXCEPT !.status = "FinWait1",
                                     !.segments = OriginAfter.segments]
          /\ DestinationAfter = AckPath.peer
          /\ DestinationAfter.status = DestinationBefore.status
          /\ dlog'[AckedSide(last')] = dlog[AckedSide(last')] \o AckPath.out
          /\ "ACK" \notin last'.flags =>
                DestinationAfter = DestinationBefore]_vars

\* The server's FIN+ACK with no data acknowledged the client's segment:
\* the segment went to the plugins, the server is in FinWait1 with the FIN
\* on its queue, and the client is still Established.
C25_Witness ==
    /\ last.flags = {"FIN", "ACK"}
    /\ ~last.to_server
    /\ last.payload = <<>>
    /\ result = "Ok"
    /\ m[TcpFlow].server.status = "FinWait1"
    /\ m[TcpFlow].client.status = "Established"
    /\ \E i \in DOMAIN m[TcpFlow].server.segments :
          /\ "FIN" \in m[TcpFlow].server.segments[i].flags
          /\ m[TcpFlow].server.segments[i].data = <<>>
    /\ Len(dlog.client) = 1
    /\ m[TcpFlow].client.segments = <<>>

\* C26: an RST from an Established peer closes that peer and changes
\* nothing else of it, its queue included; of the other peer's queue, as
\* the ACK of the packet left it, the segments whose rel_ack is the RST's
\* relative sequence number are removed and the others kept in order; the
\* other peer's status and the status of the stream are unchanged.
C26_RstRemovesAndCloses ==
    [][(/\ npkts' = npkts + 1
        /\ "RST" \in last'.flags
        /\ OriginBefore.status = "Established") =>
          /\ result' = "Ok"
          /\ OriginAfter = [OriginBefore EXCEPT !.status = "Closed"]
          /\ DestinationAfter.segments
               = SelectSeq(AckPath.peer.segments,
                           LAMBDA q : q.rel_ack # RelSeqOfLast)
          /\ DestinationAfter
               = [AckPath.peer EXCEPT !.segments = DestinationAfter.segments]
          /\ DestinationAfter.status = DestinationBefore.status
          /\ m'[TcpFlow].status = m[TcpFlow].status]_vars

\* The server had two segments queued, one acknowledging nothing of the
\* client's data and one acknowledging its first segment; the client's RST
\* at its first sequence number removed the former only, and closed the
\* client.
C26_Witness ==
    /\ last.flags = {"RST"}
    /\ last.to_server
    /\ npkts = 3 + 3
    /\ m[TcpFlow].client.status = "Closed"
    /\ m[TcpFlow].server.status = "Established"
    /\ m[TcpFlow].status = "Established"
    /\ Len(m[TcpFlow].server.segments) = 1
    /\ m[TcpFlow].server.segments[1].rel_ack
         # Sub32(last.seq, m[TcpFlow].client.isn)

(***************************************************************************)
(* Claims about re-injection, encapsulations and fragments                 *)
(***************************************************************************)
\* The re-L4 directive the plugins may return.
ReL4 == CHOOSE r \in PluginResults : r.kind = "L4"

\* C30: the handler run for a re-L4 directive dispatches to the transport
\* plugins with the five-tuple of the directive, and the flow it hands
\* them is the one of that five-tuple, in either direction.
C30_ReL4KeepsFiveTuple ==
    [][(/\ stack # <<>>
        /\ Head(stack).t = "handle_l4_common"
        /\ stack' # stack) =>
          /\ stack' # <<>>
          /\ Head(stack').t = "run_plugins_v2"
          /\ Head(stack').layer = 4
          /\ Head(stack').pinfo.five_tuple = ReL4.five_tuple
          /\ \A f \in Head(stack').pinfo.flow :
                f.five_tuple \in {ReL4.five_tuple,
                                  GetReverse(ReL4.five_tuple)}]_vars


(***************************************************************************)
(* The analyzer driven with the encapsulations of handle_l3 and            *)
(* handle_l3_common: VLAN, PPP, PPPoE session, GRE, IP-in-IP, IPv6, and a  *)
(* frame of an EtherType handle_l3 has no arm for.                         *)
(***************************************************************************)
MaxEncapFrames == 2

\* An EtherType that none of the arms of handle_l3 matches.
EtherTypeUnsupported == EtherTypesArp + 1

Frame(ethertype, payload) == EthernetPacket("unicast", ethertype, payload)
UdpDatagram == Datagram(TRUE, IpNextHeaderProtocolsUdp)
Udp6Datagram ==
    Ipv6Packet(Client6Addr, Server6Addr, IpNextHeaderProtocolsUdp,
               UdpPacket(ClientPort, ServerPort, RawData))

UnsupportedFrame == Frame(EtherTypeUnsupported, RawData)
VlanFrame == Frame(EtherTypesVlan, VlanPacket(EtherTypesIpv4, UdpDatagram))
PppoeFrame ==
    Frame(EtherTypesPppoeSession,
          PppoeSessionPacket(PppPacket(PppProtocolTypesIpv4, UdpDatagram)))
Pppoe6Frame ==
    Frame(EtherTypesPppoeSession,
          PppoeSessionPacket(PppPacket(PppProtocolTypesIpv6, Udp6Datagram)))
PppFrame == Frame(EtherTypePpp, PppPacket(PppProtocolTypesIpv4, UdpDatagram))
GreFrame ==
    Frame(EtherTypesIpv4,
          Ipv4Packet(ClientAddr, ServerAddr, IpNextHeaderProtocolsGre,
                     GrePacket(EtherTypesIpv4, UdpDatagram)))
GrePppFrame ==
    Frame(EtherTypesIpv4,
          Ipv4Packet(ClientAddr, ServerAddr, IpNextHeaderProtocolsGre,
                     GreKeyPacket(EtherTypePpp,
                                  PppPacket(PppProtocolTypesIpv4,
                                            UdpDatagram))))
\* PPP in GRE without the key of PPTP: the bytes from offset 8 on start
\* inside the IPv4 header, or past the end of the packet.
GreNoKeyPppFrame ==
    Frame(EtherTypesIpv4,
          Ipv4Packet(ClientAddr, ServerAddr, IpNextHeaderProtocolsGre,
                     GrePacket(EtherTypePpp,
                               PppPacket(PppProtocolTypesIpv4, UdpDatagram))))
Datagram33 ==
    Ipv4Packet(ClientAddr, ServerAddr, IpNextHeaderProtocolsUdp,
               UdpPacket(ClientPort, ServerPort, VlanPacket(0, RawData)))
\* The same with a datagram of 33 bytes, 0x0021 in bytes 2 and 3 of its
\* header: the bytes from offset 8 on read as PPP with IPv4 inside.
GreNoKeyPpp33Frame ==
    Frame(EtherTypesIpv4,
          Ipv4Packet(ClientAddr, ServerAddr, IpNextHeaderProtocolsGre,
                     GrePacket(EtherTypePpp,
                               PppPacket(PppProtocolTypesIpv4,
                                         Datagram33))))
GreShortPppFrame ==
    Frame(EtherTypesIpv4,
          Ipv4Packet(ClientAddr, ServerAddr, IpNextHeaderProtocolsGre,
                     GrePacket(EtherTypePpp, EmptyData)))
IpInIpFrame ==
    Frame(EtherTypesIpv4,
          Ipv4Packet(ClientAddr, ServerAddr, IpNextHeaderProtocolsIpv4,
                     UdpDatagram))
Ipv6Frame == Frame(EtherTypesIpv6, Udp6Datagram)

\* The datagram in a frame filled up to the least size of an Ethernet
\* frame: 14 bytes follow the 29 the total length counts.
EthernetPadding == [i \in 1..14 |-> 0]
PaddedFrame == Frame(EtherTypesIpv4, UdpDatagram \o EthernetPadding)
\* The same with a total length of 19, less than the header.
ShortTotalLengthFrame ==
    Frame(EtherTypesIpv4,
          Ipv4Datagram(5, 19, 0, FALSE, 0, ClientAddr, ServerAddr,
                       IpNextHeaderProtocolsUdp,
                       UdpPacket(ClientPort, ServerPort, RawData)))
\* An IPv6 packet with a hop-by-hop header and a destination options header
\* before the UDP datagram, and one whose hop-by-hop header says it is
\* longer than the packet.
Ext6Frame ==
    Frame(EtherTypesIpv6,
          Ipv6Packet(Client6Addr, Server6Addr, IpNextHeaderProtocolsHopopt,
                     ExtensionPacket(IpNextHeaderProtocolsIpv6Opts)
                       \o ExtensionPacket(IpNextHeaderProtocolsUdp)
                       \o UdpPacket(ClientPort, ServerPort, RawData)))
LongExt6Frame ==
    Frame(EtherTypesIpv6,
          Ipv6Packet(Client6Addr, Server6Addr, IpNextHeaderProtocolsHopopt,
                     <<IpNextHeaderProtocolsUdp, 1, 0, 0, 0, 0, 0, 0>>))
\* An IPv6 packet whose payload length is 0, as a jumbogram has it.
Jumbo6Frame ==
    Frame(EtherTypesIpv6,
          WithBytes(Udp6Datagram, 4, <<0, 0>>))

EncapFrames ==
    {UnsupportedFrame, VlanFrame, PppoeFrame, Pppoe6Frame, PppFrame,
     GreFrame, GrePppFrame, GreNoKeyPppFrame, GreNoKeyPpp33Frame,
     GreShortPppFrame,
     IpInIpFrame, Ipv6Frame, PaddedFrame, ShortTotalLengthFrame,
     Ext6Frame, LongExt6Frame, Jumbo6Frame,
     Frame(EtherTypesIpv4, UdpDatagram)}

\* What is captured of a frame: all of it, and for the VLAN frame also its
\* first 20 bytes only, and the frame in a buffer of 2 more bytes.
EncapCaptures ==
    {[data |-> frame, caplen |-> Len(frame)] : frame \in EncapFrames}
      \cup {[data |-> VlanFrame, caplen |-> 20],
            [data |-> VlanFrame \o <<0, 0>>, caplen |-> Len(VlanFrame)]}

EncapPacketArrives ==
    /\ nframes < MaxEncapFrames
    /\ \E capture \in EncapCaptures, ts \in Timestamps :
          HandlePacket(PacketDataL2(capture.data), capture.caplen, ts)

NextEncap == EncapPacketArrives \/ HandlerStep \/ PluginReturns \/ Teardown

InitEncap == InitAnalyzer /\ InitReassembly

SpecEncap == InitEncap /\ [][NextEncap]_vars

(***************************************************************************)
(* Claims about the EtherType of a frame and of a three-tuple              *)
(***************************************************************************)
\* handle_packet has returned Ok for the frame.
Handled(frame) ==
    /\ op = "handle_packet"
    /\ status = "Ok"
    /\ packet.data = PacketDataL2(frame)

\* C27: when a frame of an EtherType that handle_l3 has no arm for has been
\* handled, the catch-all network plugins have been called for it, and
\* no flow was created and no transport plugin called.
C27_UnsupportedEtherTypeGenericPlugins ==
    Handled(UnsupportedFrame) =>
        /\ \E i \in DOMAIN calls :
              /\ calls[i].cb = "handle_layer_network"
              /\ Registry[calls[i].plugin].filter = 0
        /\ \A i \in DOMAIN calls :
              calls[i].cb \notin {"handle_layer_transport", "flow_created"}

\* C28: the five-tuple of every flow between IPv4 addresses carries the
\* EtherType of IPv4, and of every flow between IPv6 addresses the one of
\* IPv6, whatever the packet that created the flow was carried in.
C28_L3ProtoOfIpVersion ==
    \A id \in DOMAIN flows.flows :
        LET ft == flows.flows[id].five_tuple
        IN /\ ft.src \in {ClientAddr, ServerAddr} =>
                 ft.l3_proto = EtherTypesIpv4
           /\ IsV6(ft.src) => ft.l3_proto = EtherTypesIpv6


(***************************************************************************)
(* The analyzer with do_checksums set or not, driven with packets whose    *)
(* IPv4, ICMP or ICMPv6 checksum is wrong.                                 *)
(***************************************************************************)
MaxCksumFrames == 2

\* data with the 16 bits of the checksum at offset at one more than they
\* are.
BadChecksum(data, at) ==
    WithBytes(data, at, Be16((U16(data, at) + 1) % Half))

\* An echo request, over IPv4 and over IPv6.
EchoRequest == IcmpPacket(8, 0)
Echo6Request == Icmpv6Packet(128, 0, Client6Addr, Server6Addr)
IcmpDatagram(icmp) ==
    Ipv4Packet(ClientAddr, ServerAddr, IpNextHeaderProtocolsIcmp, icmp)
Icmp6Datagram(icmp) ==
    Ipv6Packet(Client6Addr, Server6Addr, IpNextHeaderProtocolsIcmpv6, icmp)

BadIpv4Frame == Frame(EtherTypesIpv4, BadChecksum(UdpDatagram, 10))
BadIcmpFrame ==
    Frame(EtherTypesIpv4, IcmpDatagram(BadChecksum(EchoRequest, 2)))
BadIcmp6Frame ==
    Frame(EtherTypesIpv6, Icmp6Datagram(BadChecksum(Echo6Request, 2)))
\* A datagram with a wrong checksum followed by padding, one whose ICMP
\* packet has 3 bytes, and a UDP datagram under the protocol number of ICMP.
BadPaddedFrame ==
    Frame(EtherTypesIpv4, BadChecksum(UdpDatagram, 10) \o <<0, 0, 0>>)
ShortIcmpFrame == Frame(EtherTypesIpv4, IcmpDatagram(<<8, 0, 0>>))
UdpAsIcmpFrame ==
    Frame(EtherTypesIpv4,
          IcmpDatagram(UdpPacket(ClientPort, ServerPort, RawData)))

CksumFrames ==
    {BadIpv4Frame, BadIcmpFrame, BadIcmp6Frame,
     Frame(EtherTypesIpv4,
           BadChecksum(IcmpDatagram(BadChecksum(EchoRequest, 2)), 10)),
     BadPaddedFrame, ShortIcmpFrame, UdpAsIcmpFrame,
     Frame(EtherTypesIpv4, UdpDatagram),
     Frame(EtherTypesIpv4, IcmpDatagram(EchoRequest)),
     Frame(EtherTypesIpv6, Icmp6Datagram(Echo6Request))}

CksumPacketArrives ==
    /\ nframes < MaxCksumFrames
    /\ \E frame \in CksumFrames, ts \in Timestamps :
          HandlePacket(PacketDataL2(frame), Len(frame), ts)

NextCksum == CksumPacketArrives \/ HandlerStep \/ PluginReturns \/ Teardown

InitCksum == InitReassembly /\ \E cks \in BOOLEAN : AnalyzerNew(cks)

SpecCksum == InitCksum /\ [][NextCksum]_vars

\* What the handler on top of the stack does when the analyzer has
\* do_checksums = cks and is otherwise as it is.
StepWith(cks) ==
    RunTask([Analyzer EXCEPT !.do_checksums = cks], Head(stack), packet)

\* C21: whatever the handler in progress is and whatever the checksums of
\* the packet are, it does the same with do_checksums set and not set: the
\* same result, the same handlers and plugin loops left to run with the
\* same arguments, the same flow table, the same flow events, the same
\* defragmentation buffers.  Only what is logged may differ.
C21_ChecksumGating ==
    stack # <<>> =>
        LET on == StepWith(TRUE)
            off == StepWith(FALSE)
        IN /\ on.h.res = off.h.res
           /\ on.h.push = off.h.push
           /\ on.h.fm = off.h.fm
           /\ on.h.calls = off.h.calls
           /\ on.h.fresh = off.h.fresh
           /\ on.ipv4_defrag = off.ipv4_defrag
           /\ on.ipv6_defrag = off.ipv6_defrag

\* A packet with a wrong IPv4 checksum has been handled with do_checksums
\* set: the warning was logged, its flow is in the table and the transport
\* plugin was called for it.
C21_Witness ==
    /\ do_checksums
    /\ Handled(BadIpv4Frame)
    /\ warnings = <<"IPv4: invalid checksum">>
    /\ flows.flows # <<>>
    /\ \E i \in DOMAIN calls : calls[i].cb = "handle_layer_transport"


(***************************************************************************)
(* The analyzer driven with fragments, all of the same identification.     *)
(* Two UDP datagrams of 24 bytes, one each way between the two hosts, are  *)
(* cut the same way: 16 bytes with MoreFragments, then 8 bytes at offset   *)
(* 16; every byte of the payload of a datagram is the letter of the host   *)
(* that sent it.  A datagram of the protocol TCP has 16 bytes in all, less *)
(* than a TCP header, and a UDP datagram to port 4789 carries a VXLAN      *)
(* header and one byte.                                                    *)
(***************************************************************************)
MaxFragFrames == 2

FragIdentification == 42

\* The datagrams, by the host that sent them.
FragDatagrams == {"client", "server"}

\* The 16 bytes of the payload of the UDP datagram of a host, and the UDP
\* datagram.
FragPayload(of) == [i \in 1..16 |-> IF of = "client" THEN 67 ELSE 83]
FragUdp(of) ==
    IF of = "client" THEN UdpPacket(ClientPort, ServerPort, FragPayload(of))
    ELSE UdpPacket(ServerPort, ClientPort, FragPayload(of))

\* The fragment of an IPv4 datagram of the host: offset is in units of 8
\* bytes.
FragmentOf(of, proto, offset, more_fragments, payload) ==
    Ipv4Datagram(5, 20 + Len(payload), FragIdentification, more_fragments,
                 offset,
                 IF of = "client" THEN ClientAddr ELSE ServerAddr,
                 IF of = "client" THEN ServerAddr ELSE ClientAddr,
                 proto, payload)
FirstFragment(of) ==
    FragmentOf(of, IpNextHeaderProtocolsUdp, 0, TRUE,
               SliceTo(FragUdp(of), 16))
LastFragment(of) ==
    FragmentOf(of, IpNextHeaderProtocolsUdp, 2, FALSE,
               SliceFrom(FragUdp(of), 16))

\* The two fragments of 16 bytes under the protocol TCP.
FirstTcpFragment ==
    FragmentOf("client", IpNextHeaderProtocolsTcp, 0, TRUE,
               SliceTo(TcpPacket(ClientPort, ServerPort), 8))
LastTcpFragment ==
    FragmentOf("client", IpNextHeaderProtocolsTcp, 1, FALSE,
               SubSeq(TcpPacket(ClientPort, ServerPort), 9, 16))

\* The two fragments of the UDP datagram to port 4789.
FragVxlan == UdpPacket(ClientPort, VxlanPort, VxlanPacket(RawData))
FirstVxlanFragment ==
    FragmentOf("client", IpNextHeaderProtocolsUdp, 0, TRUE,
               SliceTo(FragVxlan, 8))
LastVxlanFragment ==
    FragmentOf("client", IpNextHeaderProtocolsUdp, 1, FALSE,
               SliceFrom(FragVxlan, 8))

\* The fragments of an IPv6 packet from the client, with a fragment header
\* whose offset reads 0, 2 or 16.
Ipv6Fragment(offset, last_fragment, payload) ==
    Ipv6Packet(Client6Addr, Server6Addr, IpNextHeaderProtocolsIpv6Frag,
               FragmentPacket(IpNextHeaderProtocolsUdp, FragIdentification,
                              offset, last_fragment) \o payload)

FragFrames ==
    {Frame(EtherTypesIpv4, FirstFragment(of)) : of \in FragDatagrams}
    \cup {Frame(EtherTypesIpv4, LastFragment(of)) : of \in FragDatagrams}
    \cup {Frame(EtherTypesIpv4, FirstTcpFragment),
          Frame(EtherTypesIpv4, LastTcpFragment),
          Frame(EtherTypesIpv4, FirstVxlanFragment),
          Frame(EtherTypesIpv4, LastVxlanFragment)}
    \cup {Frame(EtherTypesIpv6,
                Ipv6Fragment(0, FALSE, SliceTo(FragUdp("client"), 16))),
          Frame(EtherTypesIpv6,
                Ipv6Fragment(2, TRUE, SliceFrom(FragUdp("client"), 16))),
          Frame(EtherTypesIpv6,
                Ipv6Fragment(16, TRUE, SliceFrom(FragUdp("client"), 16)))}

FragPacketArrives ==
    /\ nframes < MaxFragFrames
    /\ \E frame \in FragFrames, ts \in Timestamps :
          HandlePacket(PacketDataL2(frame), Len(frame), ts)

NextFrag == FragPacketArrives \/ HandlerStep \/ PluginReturns \/ Teardown

InitFrag == InitAnalyzer /\ InitReassembly

SpecFrag == InitFrag /\ [][NextFrag]_vars

(***************************************************************************)
(* Claims about fragments                                                  *)
(***************************************************************************)
\* C22: the payload a transport plugin is given is made of the bytes of
\* one datagram, the one of its 5-tuple: fragments of two datagrams of the
\* same identification and of different addresses are not put together.
C22_FragmentsKeptApart ==
    \A i \in DOMAIN calls :
        LET p == calls[i].pinfo.l4_payload
        IN (calls[i].cb = "handle_layer_transport" /\ p # NoPayload) =>
              \E of \in FragDatagrams :
                  /\ \A j \in DOMAIN p[1] : p[1][j] = FragPayload(of)[1]
                  /\ (of = "client")
                        = (calls[i].pinfo.five_tuple.src = ClientAddr)

\* The handler on top of the stack is about to give a fragment to the
\* IPv4 engine, or to the IPv6 one.
AtIpv4Defrag ==
    /\ stack # <<>>
    /\ Head(stack).t = "handle_l3_ipv4_defrag"
    /\ ~(Ipv4Header(Head(stack).data).total_length = 0
         /\ Ipv4Header(Head(stack).data).header_length * 4
               > Len(Head(stack).data))
    /\ \/ Ipv4Fragment(Head(stack).data).frag_offset # 0
       \/ Ipv4Fragment(Head(stack).data).more_fragments
AtIpv6Defrag ==
    /\ stack # <<>>
    /\ Head(stack).t = "handle_l3_ipv6_rest"
    /\ Head(stack).l4_proto # IpNextHeaderProtocolsIpv6NoNxt
    /\ Head(stack).frag_ext # <<>>

\* What update returns for that fragment.
Defragmented ==
    IF AtIpv4Defrag
    THEN LET frag == Ipv4Fragment(Head(stack).data)
         IN DefragUpdate(ipv4_defrag, frag.id, frag.frag_offset,
                         frag.more_fragments, frag.payload)
    ELSE LET frag_info == Head(stack).frag_ext[1]
         IN DefragUpdate(ipv6_defrag, frag_info.id, frag_info.fragment_offset,
                         ~frag_info.last_fragment, Head(stack).data)

\* The handlers of a stack that dispatch a datagram on its IP protocol:
\* handle_l3_common, and the match of handle_l4_ipv6frag.
L4Dispatches(s) ==
    SelectSeq(s, LAMBDA task : task.t \in {"handle_l3_common",
                                           "handle_l4_ipv6frag_l4"})

\* The step of a handler that gives a fragment to its engine runs no
\* callback and leaves the flow table as it is.  When update returns
\* Incomplete or Error the handler dispatches nothing and returns Ok; when
\* update returns Complete it dispatches the datagram update has put
\* together on its IP protocol, once.
FragmentStep ==
       (AtIpv4Defrag \/ AtIpv6Defrag) =>
          /\ flows' = flows
          /\ calls' = calls
          /\ created' = created
          /\ Defragmented.kind \in {"Incomplete", "Error"} =>
                /\ stack' = Tail(stack)
                /\ status' = IF Tail(stack) = <<>> THEN "Ok" ELSE "running"
          /\ Defragmented.kind = "Complete" =>
                /\ Len(stack') = Len(stack)
                /\ Tail(stack') = Tail(stack)
                /\ Len(L4Dispatches(stack')) = Len(L4Dispatches(stack)) + 1
                /\ Head(stack').t = IF AtIpv4Defrag THEN "handle_l3_common"
                                    ELSE "handle_l4_ipv6frag_l4"
                /\ Head(stack').data = Defragmented.data
                /\ status' = "running"

\* No packet gets more than one callback of a transport plugin, unless a
\* plugin has re-injected something.
AtMostOneTransportCall ==
    (op = "handle_packet" /\ reinj = 0) =>
        Len(SelectSeq(calls, LAMBDA c : c.cb = "handle_layer_transport")) <= 1

\* C23: a fragment for which update returns Incomplete or Error is not
\* dispatched to the transport layer and creates no flow, and handle_l3
\* returns Ok; the fragment that makes update return Complete has the whole
\* datagram dispatched on its IP protocol, exactly once.
C23_FragmentsDispatchOnce == [][FragmentStep]_vars /\ []AtMostOneTransportCall

\* The two fragments of the client's datagram have arrived, the last one
\* first: nothing was dispatched for the last one, and for the first one
\* the whole datagram went to the transport plugin, once, in one flow.
C23_Witness ==
    /\ Handled(Frame(EtherTypesIpv4, FirstFragment("client")))
    /\ nframes = MaxFragFrames
    /\ warnings = <<"IPv4 defrag done">>
    /\ ipv4_defrag = DefragEngineNew
    /\ Cardinality(DOMAIN flows.flows) = 1
    /\ Len(SelectSeq(calls, LAMBDA c : c.cb = "handle_layer_transport")) = 1
    /\ \E i \in DOMAIN calls :
          /\ calls[i].cb = "handle_layer_transport"
          /\ calls[i].pinfo.l4_payload = Some(FragPayload("client"))


(***************************************************************************)
(* The analyzer driven with one TCP connection: SYN, SYN+ACK, ACK, a       *)
(* segment of five bytes, its ACK, FIN+ACK.                                *)
(***************************************************************************)
S1Isn == [client |-> 1000, server |-> 9000]
S1ClientIsn == S1Isn.client
S1ServerIsn == S1Isn.server

Hello == <<72, 69, 76, 76, 79>>

\* A TCP segment with its flags, numbers and payload.
TcpSegment(to_server, flags, seq, ack, payload) ==
    IF to_server
    THEN TcpHeader(ClientPort, ServerPort, seq, ack, flags) \o payload
    ELSE TcpHeader(ServerPort, ClientPort, seq, ack, flags) \o payload

S1Segments ==
    << TcpSegment(TRUE, {"SYN"}, S1ClientIsn, 0, <<>>),
       TcpSegment(FALSE, {"SYN", "ACK"}, S1ServerIsn, S1ClientIsn + 1, <<>>),
       TcpSegment(TRUE, {"ACK"}, S1ClientIsn + 1, S1ServerIsn + 1, <<>>),
       TcpSegment(TRUE, {"PSH", "ACK"}, S1ClientIsn + 1, S1ServerIsn + 1,
                  Hello),
       TcpSegment(FALSE, {"ACK"}, S1ServerIsn + 1,
                  S1ClientIsn + 1 + Len(Hello), <<>>),
       TcpSegment(TRUE, {"FIN", "ACK"}, S1ClientIsn + 1 + Len(Hello),
                  S1ServerIsn + 1, <<>>) >>

\* The frame of a segment.
S1Frame(segment) ==
    Frame(EtherTypesIpv4,
          IF U16(segment, 0) = ClientPort
          THEN Ipv4Packet(ClientAddr, ServerAddr, IpNextHeaderProtocolsTcp,
                          segment)
          ELSE Ipv4Packet(ServerAddr, ClientAddr, IpNextHeaderProtocolsTcp,
                          segment))

\* The segments arrive in their order, one handle_packet each.
S1PacketArrives ==
    /\ nframes < Len(S1Segments)
    /\ \E ts \in Timestamps :
          HandlePacket(PacketDataL2(S1Frame(S1Segments[nframes + 1])),
                       Len(S1Frame(S1Segments[nframes + 1])), ts)

NextS1 == S1PacketArrives \/ HandlerStep \/ PluginReturns \/ Teardown

InitS1 == InitAnalyzer /\ InitReassembly

SpecS1 == InitS1 /\ [][NextS1]_vars

(***************************************************************************)
(* Claims about the TCP connection                                         *)
(***************************************************************************)
\* The callbacks of the transport plugins for a TCP packet.
TcpTransportCalls ==
    SelectSeq(calls, LAMBDA c : /\ c.cb = "handle_layer_transport"
                                /\ c.pinfo.five_tuple.proto
                                     = IpNextHeaderProtocolsTcp)

\* C29: the transport plugins are given one payload for the connection,
\* the five bytes of its only data segment: no callback of a transport
\* plugin for a packet of the connection carries another payload.
C29_OnePayloadHello ==
    \A i \in DOMAIN TcpTransportCalls :
        TcpTransportCalls[i].pinfo.l4_payload = Some(Hello)

(***************************************************************************)
(* Claims about the segment queues                                         *)
(***************************************************************************)
\* The rel_seq of the queued segments never decreases from front to back.
SortedByRelSeq(segs) ==
    \A i \in 1..Len(segs) - 1 : ~Lt32(segs[i + 1].rel_seq, segs[i].rel_seq)

\* C31: whatever packets queue_segment and send_peer_segments have handled,
\* the partial acknowledgement that queues the rest of a segment again
\* included, the queue of each peer is in non-decreasing rel_seq order and
\* every queued segment has data or the FIN flag.
C31_QueuesSortedNonEmpty ==
    \A f \in DOMAIN m : \A side \in {"client", "server"} :
        LET segs == m[f][side].segments
        IN /\ SortedByRelSeq(segs)
           /\ \A i \in 1..Len(segs) :
                 segs[i].data # <<>> \/ "FIN" \in segs[i].flags

\* An ACK of half of the first of three queued segments has been handled:
\* the second half was queued again and is still there, before a segment of
\* higher rel_seq.
C31_Witness ==
    \E side \in {"client", "server"} :
        LET segs == m[TcpFlow][side].segments
            isn == m[TcpFlow][side].isn
        IN /\ Len(segs) = 2
           /\ segs[1].rel_seq = W(1)
           /\ segs[1].rel_ack = W(1 + Unit)
           /\ segs[1].data = Payload(Add32(isn, W(1 + Unit)), Unit)
           /\ segs[2].rel_seq = W(1 + Unit)
           /\ m[TcpFlow][side].last_rel_ack = W(1 + Unit)

(***************************************************************************)
(* Claims about the errors of the handshake                                *)
(***************************************************************************)
\* The peers and the status of a stream: every field but last_seen_ts,
\* which update writes before it calls a handler.
PeersAndStatus(s) ==
    [client |-> s.client, server |-> s.server, status |-> s.status]

\* C32: when handle_new_connection returns Anomaly or HandshakeFailed, isn,
\* ian, next_rel_seq, last_rel_ack, status and queue of both peers and the
\* status of the stream are what they were before the packet.
C32_ErrorLeavesStream ==
    [][(npkts' = npkts + 1 /\ result' \in {"Anomaly", "HandshakeFailed"}) =>
          PeersAndStatus(m'[TcpFlow]) = PeersAndStatus(StreamBefore)]_vars

\* The answer to a SYN of the client came with a wrong ack number while the
\* server was in Listen: HandshakeFailed, on a stream the SYN had changed.
C32_Witness ==
    /\ result = "HandshakeFailed"
    /\ ~last.to_server
    /\ last.flags = {"SYN", "ACK"}
    /\ last.ack # Add32(ClientIsn, W(1))
    /\ m[TcpFlow].client.status = "SynSent"
    /\ m[TcpFlow].client.isn = ClientIsn
    /\ m[TcpFlow].server.status = "Listen"

(***************************************************************************)
(* Claims about the number of callbacks of a dispatch                      *)
(***************************************************************************)
\* The packet is dispatched to each layer at most once: no plugin has
\* re-injected anything and the frame carries no inner frame.
DispatchedOncePerLayer ==
    /\ op = "handle_packet"
    /\ reinj = 0
    /\ packet.data # PacketDataL2(VxlanFrame)

\* C33: for a packet and a layer, no plugin has its callback of that layer
\* run twice, also when the dispatch filter is 0 and the list of the filter
\* is the catch-all list.
C33_EachPluginOncePerLayer ==
    DispatchedOncePerLayer =>
        \A i, j \in DOMAIN calls :
            (/\ i < j
             /\ calls[i].cb \in LayerCalls
             /\ calls[i].cb = calls[j].cb
             /\ calls[i].layer = calls[j].layer) =>
                calls[i].plugin # calls[j].plugin

(***************************************************************************)
(* The first packets of a stream.  The handshake packets, and the ones     *)
(* whose acknowledgement number is the one after the isn of a peer that    *)
(* has sent nothing yet.                                                   *)
(***************************************************************************)
MaxSynPackets == 3

SynAcks == HsAcks \cup {Add32(NewPeer.isn, W(1))}
SynPackets ==
    {[to_server |-> d, seq |-> q, ack |-> a, flags |-> fl,
      payload |-> Payload(q, n), ts |-> 0] :
        d \in BOOLEAN, q \in HsSeqs, a \in SynAcks, fl \in HsFlags, n \in {0, 1}}

SynPacketArrives ==
    \E p \in SynPackets : npkts < MaxSynPackets /\ Update(TcpFlow, p)

NextSyn == SynPacketArrives

InitSyn == InitReassembly /\ InitAnalyzer

SpecSyn == InitSyn /\ [][NextSyn]_vars

BothEstablished(s) ==
    s.client.status = "Established" /\ s.server.status = "Established"

\* C34: both peers are Established only after a SYN of one side, an answer
\* of the other side that acknowledges it and a packet of the first side
\* that acknowledges the answer; a packet of the sender of the SYN that
\* comes while the other peer is still in Listen never establishes the
\* connection.
C34_NoEstablishedWithoutAnswer ==
    [][(/\ npkts' = npkts + 1
        /\ Origin(StreamBefore, last'.to_server).status = "SynSent"
        /\ Destination(StreamBefore, last'.to_server).status = "Listen") =>
          ~BothEstablished(m'[TcpFlow])]_vars

\* C35: a peer in Listen goes to SynRcv only on a packet with both SYN and
\* ACK; a packet without one of them, whatever its acknowledgement number,
\* records no isn for the peer and leaves its status as it is.
C35_ListenNeedsSynAck ==
    [][(/\ npkts' = npkts + 1
        /\ Origin(StreamBefore, last'.to_server).status = "Listen"
        /\ ~({"SYN", "ACK"} \subseteq last'.flags)) =>
          /\ Origin(m'[TcpFlow], last'.to_server).status = "Listen"
          /\ Origin(m'[TcpFlow], last'.to_server).isn
                = Origin(StreamBefore, last'.to_server).isn]_vars

(***************************************************************************)
(* Closing and opening again.  An established stream driven with FIN, RST, *)
(* SYN, SYN+ACK and ACK packets of both directions, at the time of the     *)
(* handshake or more than the timeout after it.                            *)
(***************************************************************************)
MaxReopenPackets == 3

ReopenTimes == {0, DefaultTimeout + 1}

ReopenPackets ==
    {[p EXCEPT !.ts = ts] :
        p \in UNION {{DataPacket(d, 1, 1, {"FIN", "ACK"}, 0),
                      DataPacket(d, 1, 1, {"RST"}, 0),
                      DataPacket(d, 0, 0, {"SYN"}, 0),
                      DataPacket(d, 0, 1, {"SYN", "ACK"}, 0),
                      DataPacket(d, 1, 1, {"ACK"}, 0)} : d \in BOOLEAN},
        ts \in ReopenTimes}

ReopenPacketArrives ==
    \E p \in ReopenPackets :
       /\ npkts < 3 + MaxReopenPackets
       /\ p.ts >= m[TcpFlow].last_seen_ts
       /\ Update(TcpFlow, p)

NextReopen == ReopenPacketArrives

InitReopen == InitEstablished /\ InitAnalyzer

SpecReopen == InitReopen /\ [][NextReopen]_vars

\* The statuses the code gives a peer and a stream.
PeerStatuses ==
    {"Closed", "Listen", "SynSent", "SynRcv", "Established", "FinWait1"}
StreamStatuses == {"Closed", "SynSent", "SynRcv", "Established"}

\* C36: the status of a peer is always one of Closed, Listen, SynSent,
\* SynRcv, Established and FinWait1, the status of a stream one of Closed,
\* SynSent, SynRcv and Established; a peer in FinWait1 leaves it only for
\* Closed, on an RST it sends itself or when the stream expires.
C36_StatusesAndFinWait1 ==
    [][\A f \in DOMAIN m' :
         /\ m'[f].client.status \in PeerStatuses
         /\ m'[f].server.status \in PeerStatuses
         /\ m'[f].status \in StreamStatuses
         /\ \A side \in {"client", "server"} :
               (/\ f \in DOMAIN m
                /\ m[f][side].status = "FinWait1"
                /\ m'[f][side].status # "FinWait1") =>
                  /\ m'[f][side].status = "Closed"
                  /\ \/ sweep' # {}
                     \/ npkts' = npkts + 1 /\ result' = "Expired"
                     \/ /\ npkts' = npkts + 1
                        /\ SentSide(last') = side
                        /\ "RST" \in last'.flags]_vars

\* C37: after update has returned Expired for a packet of a stream, the
\* next packet of the flow, when it comes no later than the timeout after
\* that packet, is not answered with Expired again.
C37_ExpiryIsRecoverable ==
    [][(/\ npkts' = npkts + 1
        /\ result = "Expired"
        /\ last'.ts >= last.ts
        /\ ~TimedOut(last'.ts - last.ts, DefaultTimeout)) =>
          result' # "Expired"]_vars

(***************************************************************************)
(* The analyzer driven with encapsulated frames and with IPv4 datagrams    *)
(* whose total length is 0 (TSO), of a header length of 0 words, of 5, and *)
(* of 15, which is past the end of the datagram.  A datagram that is       *)
(* handed to handle_l3 again makes handle_packet go on for as long as the  *)
(* stack lasts: the steps of one packet are counted by its callbacks and   *)
(* stop at MaxTsoCalls.                                                    *)
(***************************************************************************)
MaxTsoFrames == 1
MaxTsoCalls == 16

TsoDatagram(header_length, proto, payload) ==
    Ipv4Datagram(header_length, 0, 0, FALSE, 0, ClientAddr, ServerAddr,
                 proto, payload)

TsoHeaderLengths == {0, 5, 15}

\* The protocols of a datagram whose bytes from the header length on are
\* read as a transport header with ports.
TsoProtocols == {IpNextHeaderProtocolsUdp, IpNextHeaderProtocolsTcp}

\* The datagram whose payload is the datagram itself: IP in IP from byte 0.
TsoSelfFrame ==
    Frame(EtherTypesIpv4,
          TsoDatagram(0, IpNextHeaderProtocolsIpv4, UdpDatagram))

TsoFrames ==
    {Frame(EtherTypesIpv4,
           TsoDatagram(hl, IpNextHeaderProtocolsIpv4, UdpDatagram)) :
        hl \in TsoHeaderLengths}
      \cup {Frame(EtherTypesIpv4,
                  TsoDatagram(hl, proto,
                              UdpPacket(ClientPort, ServerPort, RawData))) :
              hl \in {0, 5}, proto \in TsoProtocols}
      \cup {Frame(EtherTypesIpv4,
                  TsoDatagram(hl, IpNextHeaderProtocolsIcmp,
                              UdpPacket(ClientPort, ServerPort, RawData))) :
              hl \in {0, 5}}
      \cup {
            VlanFrame, PppoeFrame, PppFrame, GreFrame, GrePppFrame,
            IpInIpFrame, VxlanFrame}

TsoPacketArrives ==
    /\ nframes < MaxTsoFrames
    /\ \E frame \in TsoFrames, ts \in Timestamps :
          HandlePacket(PacketDataL2(frame), Len(frame), ts)

TsoHandlerStep == Len(calls) < MaxTsoCalls /\ HandlerStep
TsoPluginReturns == Len(calls) < MaxTsoCalls /\ PluginReturns

NextTso ==
    TsoPacketArrives \/ TsoHandlerStep \/ TsoPluginReturns \/ Teardown

InitTso == InitAnalyzer /\ InitReassembly

SpecTso == InitTso /\ [][NextTso]_vars

\* The tasks that are a handler working on a slice, and how far each is in
\* the chain handle_l2, handle_l3, handle_l3_ipv4 or _ipv6, handle_l3_common
\* that takes the headers off one slice.
SliceHandlers ==
    {"handle_l2", "ethernet", "handle_l3", "handle_l3_ipv4_defrag",
     "handle_l3_ipv6_rest", "handle_l3_common", "handle_l4_ipv6frag_l4"}
HandlerStage(task) ==
    CASE task.t = "handle_l2" -> 0
      [] task.t = "ethernet" -> 1
      [] task.t = "handle_l3" -> 2
      [] task.t \in {"handle_l3_ipv4_defrag", "handle_l3_ipv6_rest"} -> 3
      [] task.t \in {"handle_l3_common", "handle_l4_ipv6frag_l4"} -> 4

\* The handler `inner` either works on a shorter slice than `outer`, or is
\* a later part of the same pass over a slice of the same length.
Descends(inner, outer) ==
    \/ Len(inner.data) < Len(outer.data)
    \/ /\ Len(inner.data) = Len(outer.data)
       /\ HandlerStage(inner) > HandlerStage(outer)

\* The tasks a step of the handler on top of the stack has left in its
\* place.
LeftByStep == 1..(Len(stack') - Len(stack) + 1)

\* C38: while no plugin has re-injected anything, every handler a handler
\* hands a slice to is given a strictly shorter slice, unless it is the next
\* stage of the same pass: no handler is entered again on a slice of the
\* length it was entered on, so that handle_packet ends.
C38_ReentryOnShorterSlice ==
    [][(reinj' = 0 /\ stack # <<>> /\ Head(stack).t \in SliceHandlers) =>
          \A i \in LeftByStep :
              stack'[i].t \in SliceHandlers =>
                  Descends(stack'[i], Head(stack))]_vars

(***************************************************************************)
(* Claims about the flow id plugins see                                    *)
(***************************************************************************)
\* The Flow a callback was given.
FlowOf(call) == CHOOSE f \in call.pinfo.flow : TRUE

\* C39: the Flow given to flow_created carries the id the flow table
\* stores the flow under, and the transport callbacks that follow for the
\* same flow are given a Flow of the same id.
C39_FlowIdStable ==
    op = "handle_packet" =>
        \A i \in DOMAIN calls :
            calls[i].cb = "flow_created" =>
                /\ FlowOf(calls[i]).flow_id \in DOMAIN flows.flows
                /\ flows.flows[FlowOf(calls[i]).flow_id].five_tuple
                      = FlowOf(calls[i]).five_tuple
                /\ \A j \in DOMAIN calls :
                      (/\ j > i
                       /\ calls[j].cb = "handle_layer_transport"
                       /\ calls[j].pinfo.flow # {}
                       /\ FlowOf(calls[j]).five_tuple
                             = FlowOf(calls[i]).five_tuple) =>
                          FlowOf(calls[j]).flow_id
                             = FlowOf(calls[i]).flow_id

====
